---- MODULE Spec2Model ----
(***************************************************************************)
(* Model of the cppasta slot maps: GenerationalIndex keys, the skipfields, *)
(* the two SlotMap storage backends, SlotMap and DenseSlotMap.             *)
(*                                                                         *)
(* Arrays are sequences; the C++ index i is position i + 1 (At / Put).     *)
(* assert() is compiled in (the build the tests run): a failing assertion  *)
(* ends the program, recorded in the object's field abort, and an aborted  *)
(* object takes no further step.  Undefined behaviour is an input of the   *)
(* step that meets it: the step either crashes (abort = "ub:...") or       *)
(* continues with a value the build can produce.                           *)
(***************************************************************************)
EXTENDS Integers, Sequences, FiniteSets, TLC

\* ---------------------------------------------------------------- bounds
\* Width in bits of the generation field of the key type the maps are
\* instantiated with (a template parameter of the key classes).
GenBits == 2
\* Largest number of slots a container may grow to.
MaxCap == 4
\* Number of operations issued on one container.
MaxOps == 4
\* Width of the index of the key types exercised on their own.
IdxBits == 2

\* The element values (T), the capacities, growth constants and growth
\* factors (in halves: 2 is 1.0f, 3 is 1.5f) the containers are built with.
Values == {"foo", "bar"}
InitCaps == {1, 2}
GrowthConstants == {0, 2}
GrowthFactors == {2, 3}

\* find() returning nullptr, and what reading a cell in the wrong role gives.
Absent == "nullptr"
Garbage == "garbage"

\* ------------------------------------------------------------ primitives
Pow2(n) == IF n = 0 THEN 1 ELSE 2 * (2 ^ (n - 1))

At(s, i) == s[i + 1]

Put(s, i, x) == [s EXCEPT ![i + 1] = x]

Fill(n, x) == [j \in 1..n |-> x]

\* A call issued on the object under test: the operation and its argument.
Call(op, value) == [op |-> op, value |-> value]

\* ------------------------------------------------- generational_index.hpp
GenMask == Pow2(GenBits) - 1

\* Key(i, g): the constructor of a key with a GenBits wide generation.
Key(i, g) == [idx |-> i, gen |-> g % (GenMask + 1)]

\* Key(): the default-constructed key, the invalid sentinel.
NullKey == [idx |-> 0, gen |-> 0]

\* valid as it would be if generation 0 were not reserved.
valid_any(k) == TRUE

valid(k) == k.gen # 0

\* next_generation as it would be if it returned the same generation.
next_generation_same(k) == Key(k.idx, k.gen)

next_generation(k) ==
    LET g == (k.gen + 1) % (GenMask + 1)
    IN  Key(k.idx, IF g = 0 THEN 1 ELSE g)

\* The three key classes. A key type T is a class with the widths of its
\* index and of its generation: the bit counts of BitFieldId and BitMaskId
\* (BaseInt has IdxBits + GenBits bits), the widths of IdxInt and GenInt of
\* CompositeId.
IdClasses == {"BitFieldId", "BitMaskId", "CompositeId"}

IdTypes == [class : IdClasses, IdxBits : {IdxBits}, GenBits : 1..GenBits]

\* The conversion of x to an unsigned integer of the given width.
Unsigned(x, bits) == x % Pow2(bits)

\* a & b on unsigned integers.
RECURSIVE BitAnd(_, _)
BitAnd(a, b) ==
    IF a = 0 \/ b = 0 THEN 0
    ELSE (a % 2) * (b % 2) + 2 * BitAnd(a \div 2, b \div 2)

\* BitFieldId(i, g): index(i & IdxMask), generation(g & GenMask).
BitFieldId(T, i, g) ==
    [T |-> T,
     index |-> BitAnd(Unsigned(i, T.IdxBits + T.GenBits), Pow2(T.IdxBits) - 1),
     generation |-> BitAnd(Unsigned(g, T.IdxBits + T.GenBits), Pow2(T.GenBits) - 1)]

\* BitMaskId(i, g) as it would be if value kept the bits shifted out.
BitMaskId_wide(T, i, g) ==
    [T |-> T,
     value |-> Unsigned(g, T.IdxBits + T.GenBits) * Pow2(T.IdxBits)
                  + BitAnd(Unsigned(i, T.IdxBits + T.GenBits), Pow2(T.IdxBits) - 1)]

\* BitMaskId(i, g): value((g << IdxBits) | (i & IdxMask)), the shifted-out
\* bits lost in the conversion to BaseInt.
BitMaskId(T, i, g) ==
    [T |-> T,
     value |-> Unsigned(Unsigned(g, T.IdxBits + T.GenBits) * Pow2(T.IdxBits)
                           + BitAnd(Unsigned(i, T.IdxBits + T.GenBits),
                                    Pow2(T.IdxBits) - 1),
                        T.IdxBits + T.GenBits)]

\* CompositeId(i, g): index(i), generation(g).
CompositeId(T, i, g) ==
    [T |-> T, index |-> Unsigned(i, T.IdxBits), generation |-> Unsigned(g, T.GenBits)]

\* Derived(i, g)
Id(T, i, g) ==
    CASE T.class = "BitFieldId" -> BitFieldId(T, i, g)
      [] T.class = "BitMaskId" -> BitMaskId(T, i, g)
      [] OTHER -> CompositeId(T, i, g)

\* Derived(): index(0), generation(0) or value(0).
Id0(T) ==
    IF T.class = "BitMaskId" THEN [T |-> T, value |-> 0]
    ELSE [T |-> T, index |-> 0, generation |-> 0]

Id_idx(k) ==
    IF k.T.class = "BitMaskId" THEN BitAnd(k.value, Pow2(k.T.IdxBits) - 1) ELSE k.index

Id_gen(k) ==
    IF k.T.class = "BitMaskId" THEN k.value \div Pow2(k.T.IdxBits) ELSE k.generation

Id_max(T) == Id(T, -1, -1)

\* operator==
Id_eq(a, b) == Id_idx(a) = Id_idx(b) /\ Id_gen(a) = Id_gen(b)

Id_valid(k) == Id_gen(k) # 0

\* next_generation as it would be without the step over generation 0.
Id_next_generation_to_0(k) ==
    Id(k.T, Id_idx(k), BitAnd(Id_gen(k) + 1, Id_gen(Id_max(k.T))))

\* next_generation of GenerationalIdBase, for a key of any of the classes.
Id_next_generation(k) ==
    LET g == BitAnd(Id_gen(k) + 1, Id_gen(Id_max(k.T)))
    IN  Id(k.T, Id_idx(k), IF g = 0 THEN 1 ELSE g)

\* ---------------------------------------------------------- skipfield.hpp
\* A skipfield object: kind is the class, f is num_skipped_ (IntSkipfield)
\* or skipped_ (BoolSkipfield); NullSkipfield has no state.
SkipKinds == {"Null", "Bool", "Int"}

SkipFail(sf, why) == [sf EXCEPT !.abort = why]

\* IntSkipfield::set_range_skipped on the array f. The loop bound count - 1
\* is unsigned: count = 0 wraps, and a range outside the array is written
\* out of bounds; RangeInBounds is the condition under which neither happens.
RangeInBounds(f, start, count) ==
    count >= 1 /\ start >= 0 /\ start + count <= Len(f)

set_range_skipped(f, start, count) ==
    [j \in 1..Len(f) |->
        IF j - 1 >= start /\ j - 1 < start + count - 1 THEN count - (j - 1 - start)
        ELSE IF j - 1 = start + count - 1 THEN count
        ELSE f[j]]

\* sf.f rewritten by set_range_skipped, or the crash of an out-of-bounds write.
SkipRange(sf, f, start, count) ==
    IF RangeInBounds(f, start, count)
    THEN [sf EXCEPT !.f = set_range_skipped(f, start, count)]
    ELSE SkipFail([sf EXCEPT !.f = f], "ub:set_range_skipped")

\* A second set_range_skipped, unless the first one crashed.
SkipRangeNext(sf, start, count) ==
    IF sf.abort # "" THEN sf ELSE SkipRange(sf, sf.f, start, count)

IntSkipfield(size, init_skipped) ==
    LET sf == [kind |-> "Int", f |-> Fill(size, 0), abort |-> ""]
    IN  IF init_skipped THEN SkipRange(sf, sf.f, 0, size) ELSE sf

IntSkipfield_resize(sf, size, init_skipped) ==
    LET old_size == Len(sf.f)
        f1 == sf.f \o Fill(size - old_size, 0)
    IN  IF ~(size > old_size) THEN SkipFail(sf, "assert:skipfield.resize")
        ELSE IF ~init_skipped THEN [sf EXCEPT !.f = f1]
        ELSE IF old_size = 0 \/ At(f1, old_size - 1) = 0
             THEN SkipRange(sf, f1, old_size, size - old_size)
        ELSE LET prev == At(f1, old_size - 1)
             IN  SkipRange(sf, f1, old_size - prev, size - old_size + prev)

IntSkipfield_set_skipped(sf, idx) ==
    IF ~(idx < Len(sf.f)) THEN SkipFail(sf, "assert:set_skipped.idx")
    ELSE IF At(sf.f, idx) # 0 THEN SkipFail(sf, "assert:set_skipped.skipped")
    ELSE
    LET f == sf.f
        prev == IF idx > 0 THEN At(f, idx - 1) ELSE 0
        next == IF idx + 1 < Len(f) THEN At(f, idx + 1) ELSE 0
    IN  IF prev = 0 /\ next = 0 THEN [sf EXCEPT !.f = Put(f, idx, 1)]
        ELSE IF prev = 0 /\ next # 0
             THEN [sf EXCEPT !.f = Put(Put(f, idx, next + 1), idx + next - 1, next + 1)]
        ELSE IF prev # 0 /\ next = 0
             THEN SkipRange(sf, f, idx - prev, prev + 1)
        ELSE SkipRange(sf, f, idx - prev, prev + next + 1)

IntSkipfield_set_not_skipped(sf, idx) ==
    IF ~(idx < Len(sf.f)) THEN SkipFail(sf, "assert:set_not_skipped.idx")
    ELSE IF ~(At(sf.f, idx) > 0) THEN SkipFail(sf, "assert:set_not_skipped.cur")
    ELSE
    LET f == sf.f
        cur == At(f, idx)
        prev == IF idx > 0 THEN At(f, idx - 1) ELSE 0
        next == IF idx + 1 < Len(f) THEN At(f, idx + 1) ELSE 0
    IN  IF prev = 0 /\ next = 0 THEN [sf EXCEPT !.f = Put(f, idx, 0)]
        ELSE IF prev = 0 /\ next # 0
             THEN IF idx + cur - 1 < Len(f)
                  THEN [sf EXCEPT !.f = Put(Put(f, idx, 0), idx + cur - 1, cur - 1)]
                  ELSE SkipFail(sf, "ub:set_not_skipped")
        ELSE IF prev # 0 /\ next = 0
             THEN SkipRange(sf, Put(f, idx, 0), idx - (cur - 1), cur - 1)
        ELSE LET last == idx + cur - 1
             IN  IF ~(last < Len(f)) THEN SkipFail(sf, "ub:set_not_skipped")
                 ELSE SkipRangeNext(
                         SkipRange(sf, Put(f, idx, 0), last + 1 - At(f, last),
                                   idx - (last + 1 - At(f, last))),
                         idx + 1, last - idx)

\* The value get_num_skipped returns; its assertion idx < size is NumSkippedOk.
IntSkipfield_get_num_skipped(sf, idx) == At(sf.f, idx)

BoolSkipfield(size, init_skipped) ==
    [kind |-> "Bool", f |-> Fill(size, IF init_skipped THEN 1 ELSE 0), abort |-> ""]

BoolSkipfield_resize(sf, size, init_skipped) ==
    IF ~(size > Len(sf.f)) THEN SkipFail(sf, "assert:skipfield.resize")
    ELSE [sf EXCEPT !.f = sf.f \o Fill(size - Len(sf.f), IF init_skipped THEN 1 ELSE 0)]

BoolSkipfield_set_skipped(sf, idx) ==
    IF ~(idx < Len(sf.f)) THEN SkipFail(sf, "assert:set_skipped.idx")
    ELSE IF At(sf.f, idx) # 0 THEN SkipFail(sf, "assert:set_skipped.skipped")
    ELSE [sf EXCEPT !.f = Put(sf.f, idx, 1)]

BoolSkipfield_set_not_skipped(sf, idx) ==
    IF ~(idx < Len(sf.f)) THEN SkipFail(sf, "assert:set_not_skipped.idx")
    ELSE IF ~(At(sf.f, idx) > 0) THEN SkipFail(sf, "assert:set_not_skipped.cur")
    ELSE [sf EXCEPT !.f = Put(sf.f, idx, 0)]

RECURSIVE BoolScan(_, _, _)
BoolScan(f, idx, i) ==
    IF idx + i < Len(f) /\ At(f, idx + i) > 0 THEN BoolScan(f, idx, i + 1) ELSE i

BoolSkipfield_get_num_skipped(sf, idx) == BoolScan(sf.f, idx, 0)

NullSkipfield == [kind |-> "Null", f |-> <<>>, abort |-> ""]

\* Dispatch on the skipfield class (the Skipfield template parameter).
Skipfield(kind, size, init_skipped) ==
    CASE kind = "Int" -> IntSkipfield(size, init_skipped)
      [] kind = "Bool" -> BoolSkipfield(size, init_skipped)
      [] OTHER -> NullSkipfield

skipfield_resize(sf, size, init_skipped) ==
    CASE sf.kind = "Int" -> IntSkipfield_resize(sf, size, init_skipped)
      [] sf.kind = "Bool" -> BoolSkipfield_resize(sf, size, init_skipped)
      [] OTHER -> sf

set_skipped(sf, idx) ==
    CASE sf.kind = "Int" -> IntSkipfield_set_skipped(sf, idx)
      [] sf.kind = "Bool" -> BoolSkipfield_set_skipped(sf, idx)
      [] OTHER -> sf

set_not_skipped(sf, idx) ==
    CASE sf.kind = "Int" -> IntSkipfield_set_not_skipped(sf, idx)
      [] sf.kind = "Bool" -> BoolSkipfield_set_not_skipped(sf, idx)
      [] OTHER -> sf

\* The assertion idx < size of get_num_skipped (NullSkipfield asserts nothing).
NumSkippedOk(sf, idx) == sf.kind = "Null" \/ idx < Len(sf.f)

get_num_skipped(sf, idx) ==
    CASE sf.kind = "Int" -> IntSkipfield_get_num_skipped(sf, idx)
      [] sf.kind = "Bool" -> BoolSkipfield_get_num_skipped(sf, idx)
      [] OTHER -> 0

\* ------------------------------------------------------ slot_map_storage.hpp
\* A cell of ElementStorage<T>: a free-list link (uint32_t), a live T, or
\* memory nothing was constructed in.
Link(n) == [tag |-> "link", v |-> n]
Elem(v) == [tag |-> "value", v |-> v]
Raw == [tag |-> "raw", v |-> 0]

StorageFail(st, why) == [st EXCEPT !.abort = why]

\* The constructors of GrowableSlotMapStorage (paged = FALSE) and
\* PagedSlotMapStorage (paged = TRUE); cell is data_ or the pages in order.
Storage(paged, capacity) ==
    [paged |-> paged, cell |-> Fill(capacity, Raw), gen |-> Fill(capacity, 0),
     page_size_ |-> capacity, num_pages_ |-> 1, abort |-> ""]

storage_size(st) == Len(st.gen)

\* resize as it would be if it did not move the elements to the new
\* allocation.
GrowableSlotMapStorage_resize_fresh(st, size) ==
    IF size < Len(st.gen) THEN StorageFail(st, "ub:resize.shrink")
    ELSE [st EXCEPT !.cell = Fill(size, Raw),
                    !.gen = st.gen \o Fill(size - Len(st.gen), 0)]

\* GrowableSlotMapStorage::resize: live elements are moved into the new
\* allocation, the links of free cells are destroyed and not copied.
GrowableSlotMapStorage_resize(st, size) ==
    LET old == Len(st.gen)
    IN  IF size < old THEN StorageFail(st, "ub:resize.shrink")
        ELSE [st EXCEPT
                !.cell = [j \in 1..size |->
                             IF j <= old /\ st.gen[j] > 0 THEN st.cell[j] ELSE Raw],
                !.gen = st.gen \o Fill(size - old, 0)]

\* PagedSlotMapStorage::resize: the number of entries it allocates for the new
\* page table, and the largest index of that table it writes.
new_pages_allocated(st) == st.num_pages_

new_pages_written(st) == st.num_pages_

\* PagedSlotMapStorage::resize: the new page table is allocated with
\* num_pages_ entries and entry num_pages_ is written, one past its end;
\* crash is whether that write brings the program down.
PagedSlotMapStorage_resize(st, size, crash) ==
    IF crash THEN StorageFail(st, "ub:new_pages")
    ELSE [st EXCEPT
            !.cell = st.cell \o Fill(st.page_size_, Raw),
            !.gen = st.gen \o Fill(st.page_size_, 0),
            !.num_pages_ = st.num_pages_ + 1]

storage_resize(st, size, crash) ==
    IF st.paged THEN PagedSlotMapStorage_resize(st, size, crash)
    ELSE GrowableSlotMapStorage_resize(st, size)

\* store_free_list: placement-new of a link. An idx beyond the cells is a
\* write through a pointer outside the allocation (a page that does not
\* exist): it crashes, or lands elsewhere and is lost.
store_free_list(st, idx, link, crash) ==
    IF idx < Len(st.cell) THEN [st EXCEPT !.cell = Put(st.cell, idx, Link(link))]
    ELSE IF crash THEN StorageFail(st, "ub:store_free_list")
    ELSE st

store_element(st, idx, t) ==
    IF ~(idx < Len(st.gen)) THEN StorageFail(st, "ub:store_element")
    ELSE IF At(st.gen, idx) # 0 THEN StorageFail(st, "assert:store_element")
    ELSE [st EXCEPT !.cell = Put(st.cell, idx, Elem(t))]

destroy_element(st, idx, link) ==
    IF ~(At(st.gen, idx) > 0) THEN StorageFail(st, "assert:destroy_element")
    ELSE [st EXCEPT !.cell = Put(st.cell, idx, Link(link))]

\* *data(idx): the element, or garbage when the cell holds no element.
data(st, idx) ==
    IF At(st.cell, idx).tag = "value" THEN At(st.cell, idx).v ELSE Garbage

\* free_list(idx): the link; junk is what the read gives when no link was
\* stored in the cell.
free_list(st, idx, junk) ==
    IF At(st.cell, idx).tag = "link" THEN At(st.cell, idx).v ELSE junk

\* Whether free_list(idx) reads a cell no link was stored in.
ReadsJunk(st, idx) == idx < Len(st.cell) /\ At(st.cell, idx).tag # "link"

set_gen(st, idx, g) == [st EXCEPT !.gen = Put(st.gen, idx, g)]

\* -------------------------------------------------------------- slot_map.hpp
\* A SlotMap object. ret is what the last call returned: op names the call,
\* key is the key insert returned, ok the boolean remove returned.
Ret(op, key, ok) == [op |-> op, key |-> key, ok |-> ok]

SetStorage(m, st) ==
    [m EXCEPT !.storage_ = st, !.abort = IF m.abort # "" THEN m.abort ELSE st.abort]

SetSkipfield(m, sf) ==
    [m EXCEPT !.skipfield_ = sf, !.abort = IF m.abort # "" THEN m.abort ELSE sf.abort]

SMFail(m, why) == [m EXCEPT !.abort = why]

\* store_free_list(i, i + 1) for i = from .. to - 1.
RECURSIVE LinkRange(_, _, _, _)
LinkRange(st, from, to, crash) ==
    IF from >= to \/ st.abort # "" THEN st
    ELSE LinkRange(store_free_list(st, from, from + 1, crash), from + 1, to, crash)

SlotMap(kind, paged, capacity, growth_constant, growth_factor) ==
    [storage_ |-> LinkRange(Storage(paged, capacity), 0, capacity, FALSE),
     skipfield_ |-> Skipfield(kind, capacity, TRUE),
     size_ |-> 0,
     free_list_head_ |-> 0,
     growth_constant_ |-> growth_constant,
     growth_factor_ |-> growth_factor,
     generation_ |-> 1,
     ret |-> Ret("ctor", NullKey, TRUE),
     abort |-> ""]

SlotMap_capacity(m) == storage_size(m.storage_)

SlotMap_size(m) == m.size_

\* The steps of resize after storage_.resize, each taken unless the program
\* has ended: skipfield_.resize, the links of the new slots, the new head.
resize_skipfield(m, size) ==
    IF m.abort # "" THEN m
    ELSE SetSkipfield(m, skipfield_resize(m.skipfield_, size, TRUE))

LinkLast(st, idx, link, crash) ==
    IF st.abort # "" THEN st ELSE store_free_list(st, idx, link, crash)

resize_links(m, old_size, size, crash) ==
    IF m.abort # "" THEN m
    ELSE SetStorage(m, LinkLast(LinkRange(m.storage_, old_size, size - 1, crash),
                                size - 1, m.free_list_head_, crash))

resize_head(m, old_size) ==
    IF m.abort # "" THEN m ELSE [m EXCEPT !.free_list_head_ = old_size]

SlotMap_resize(m, size, crash) ==
    resize_head(
        resize_links(
            resize_skipfield(SetStorage(m, storage_resize(m.storage_, size, crash)), size),
            storage_size(m.storage_), size, crash),
        storage_size(m.storage_))

\* static_cast<size_t>(storage_.size() * growth_factor_) + growth_constant_
GrownSize(m) == (storage_size(m.storage_) * m.growth_factor_) \div 2 + m.growth_constant_

\* The first half of insert: grow, or pop the head of the free list.
insert_acquire(m, crash, junk) ==
    IF m.free_list_head_ >= storage_size(m.storage_)
    THEN IF ~(GrownSize(m) > storage_size(m.storage_))
         THEN SMFail(m, "assert:SlotMap full")
         ELSE SlotMap_resize(m, GrownSize(m), crash)
    ELSE IF At(m.storage_.gen, m.free_list_head_) # 0
         THEN SMFail(m, "assert:insert.gen")
         ELSE [m EXCEPT !.free_list_head_ = free_list(m.storage_, m.free_list_head_, junk)]

\* The second half, each step taken unless the program has ended: the
\* counter and the element, the skipfield, the generation and the size.
insert_store(m, key, value) ==
    IF m.abort # "" THEN m
    ELSE SetStorage([m EXCEPT !.generation_ = next_generation(key).gen],
                    store_element(m.storage_, key.idx, value))

insert_unskip(m, key) ==
    IF m.abort # "" THEN m
    ELSE SetSkipfield(m, set_not_skipped(m.skipfield_, key.idx))

insert_finish(m, key) ==
    IF m.abort # "" THEN m
    ELSE [m EXCEPT !.storage_ = set_gen(m.storage_, key.idx, key.gen),
                   !.size_ = m.size_ + 1,
                   !.ret = Ret("insert", key, TRUE)]

insert_key(m, key, value, crash, junk) ==
    insert_finish(insert_unskip(insert_store(insert_acquire(m, crash, junk), key, value), key),
                  key)

SlotMap_insert(m, value, crash, junk) ==
    insert_key(m, Key(m.free_list_head_, m.generation_), value, crash, junk)

\* The steps of remove after destroy_element.
remove_skip(m, idx) ==
    IF m.abort # "" THEN m
    ELSE SetSkipfield([m EXCEPT !.free_list_head_ = idx,
                                !.storage_ = set_gen(m.storage_, idx, 0)],
                      set_skipped(m.skipfield_, idx))

\* The end of remove as it would be if it left size_ alone.
remove_finish_uncounted(m) ==
    IF m.abort # "" THEN m
    ELSE [m EXCEPT !.ret = Ret("remove", NullKey, TRUE)]

remove_finish(m) ==
    IF m.abort # "" THEN m
    ELSE [m EXCEPT !.size_ = m.size_ - 1, !.ret = Ret("remove", NullKey, TRUE)]

SlotMap_remove(m, key) ==
    IF ~(key.idx < storage_size(m.storage_)) THEN SMFail(m, "assert:remove.idx")
    ELSE IF ~valid(key) \/ key.gen # At(m.storage_.gen, key.idx)
         THEN [m EXCEPT !.ret = Ret("remove", NullKey, FALSE)]
    ELSE remove_finish(
            remove_skip(
                SetStorage(m, destroy_element(m.storage_, key.idx, m.free_list_head_)),
                key.idx))

\* contains asserts key.idx() < storage_.size(): ContainsOk.
SlotMap_ContainsOk(m, key) == key.idx < storage_size(m.storage_)

\* contains as it would be if it looked at the slot's occupancy only.
SlotMap_contains_occupied(m, key) == valid(key) /\ At(m.storage_.gen, key.idx) # 0

SlotMap_contains(m, key) == valid(key) /\ At(m.storage_.gen, key.idx) = key.gen

SlotMap_get(m, key) == data(m.storage_, key.idx)

SlotMap_find(m, key) == IF SlotMap_contains(m, key) THEN SlotMap_get(m, key) ELSE Absent

\* The linear scan of next from slot i on.
RECURSIVE NextScan(_, _)
NextScan(m, i) ==
    IF ~(i < storage_size(m.storage_)) THEN NullKey
    ELSE IF At(m.storage_.gen, i) > 0 THEN Key(i, At(m.storage_.gen, i))
    ELSE NextScan(m, i + 1)

\* next(key): ok is FALSE when the assertion of get_num_skipped fails.
SlotMap_next(m, key) ==
    LET i == IF valid(key) THEN key.idx + 1 ELSE 0
    IN  IF ~NumSkippedOk(m.skipfield_, i) THEN [ok |-> FALSE, key |-> NullKey]
        ELSE [ok |-> TRUE, key |-> NextScan(m, i + get_num_skipped(m.skipfield_, i))]

\* Iteration as in the tests' collect: key = next({}), then key = next(key)
\* while key is valid. keys are the keys returned in order; ok is FALSE when
\* a call of next fails its assertion. A live map returns at most
\* capacity keys: fuel bounds the loop.
RECURSIVE CollectFrom(_, _, _)
CollectFrom(m, key, fuel) ==
    IF ~SlotMap_next(m, key).ok \/ fuel < 0 THEN [ok |-> FALSE, keys |-> <<>>]
    ELSE IF ~valid(SlotMap_next(m, key).key) THEN [ok |-> TRUE, keys |-> <<>>]
    ELSE [ok |-> CollectFrom(m, SlotMap_next(m, key).key, fuel - 1).ok,
          keys |-> <<SlotMap_next(m, key).key>>
                   \o CollectFrom(m, SlotMap_next(m, key).key, fuel - 1).keys]

collect(m) == CollectFrom(m, NullKey, SlotMap_capacity(m))

\* clear removes slot i when it is occupied.
clear_slot(m, i) ==
    IF At(m.storage_.gen, i) > 0 THEN SlotMap_remove(m, Key(i, At(m.storage_.gen, i))) ELSE m

RECURSIVE ClearFrom(_, _)
ClearFrom(m, i) ==
    IF m.abort # "" \/ ~(i < storage_size(m.storage_)) THEN m
    ELSE ClearFrom(clear_slot(m, i), i + 1)

clear_finish(m) ==
    IF m.abort # "" THEN m ELSE [m EXCEPT !.ret = Ret("clear", NullKey, TRUE)]

SlotMap_clear(m) == clear_finish(ClearFrom(m, 0))

\* -------------------------------------------------------- dense_slot_map.hpp
\* A DenseSlotMap object: data_, indices_ (keys: data index or free-list
\* link, with the slot's generation) and backrefs_.
DSMFail(d, why) == [d EXCEPT !.abort = why]

DenseSlotMap(capacity, growth_constant, growth_factor) ==
    [data_ |-> <<>>,
     indices_ |-> [j \in 1..capacity |-> Key(j, 1)],
     backrefs_ |-> <<>>,
     free_list_head_ |-> 0,
     growth_constant_ |-> growth_constant,
     growth_factor_ |-> growth_factor,
     ret |-> Ret("ctor", NullKey, TRUE),
     abort |-> ""]

DenseSlotMap_size(d) == Len(d.data_)

DenseSlotMap_capacity(d) == Len(d.indices_)

\* reserve as it would be if it rebuilt indices_ instead of resizing it: the
\* old entries come out value-initialised.
DenseSlotMap_reserve_rebuilt(d, size) ==
    LET old_size == Len(d.indices_)
        resized == [j \in 1..size |-> IF j <= old_size THEN Key(0, 0) ELSE Key(j, 1)]
    IN  IF size = 0 THEN DSMFail(d, "ub:reserve")
        ELSE [d EXCEPT !.indices_ = Put(resized, size - 1, Key(d.free_list_head_, 1)),
                       !.free_list_head_ = old_size]

\* reserve(size): indices_.resize(size), the new entries chained, the last
\* one linked to the old free head, which the new head replaces.
DenseSlotMap_reserve(d, size) ==
    LET old_size == Len(d.indices_)
        resized == [j \in 1..size |->
                       IF j <= old_size THEN d.indices_[j] ELSE Key(j, 1)]
    IN  IF size = 0 THEN DSMFail(d, "ub:reserve")
        ELSE [d EXCEPT !.indices_ = Put(resized, size - 1, Key(d.free_list_head_, 1)),
                       !.free_list_head_ = old_size]

\* static_cast<size_t>(data_.size() * growth_factor_) + growth_constant_
DenseGrownSize(d) == (Len(d.data_) * d.growth_factor_) \div 2 + d.growth_constant_

DenseSlotMap_insert(d, value) ==
    LET d1 == IF Len(d.indices_) = Len(d.data_)
              THEN IF ~(DenseGrownSize(d) > Len(d.indices_))
                   THEN DSMFail(d, "assert:DenseSlotMap full")
                   ELSE DenseSlotMap_reserve(d, DenseGrownSize(d))
              ELSE d
    IN  IF d1.abort # "" THEN d1
        ELSE IF ~(d1.free_list_head_ < Len(d1.indices_)) THEN DSMFail(d1, "assert:insert.head")
        ELSE
        LET indices_idx == d1.free_list_head_
            data_idx == Len(d1.data_)
            gen == At(d1.indices_, indices_idx).gen
        IN  [d1 EXCEPT !.free_list_head_ = At(d1.indices_, indices_idx).idx,
                       !.data_ = Append(d1.data_, value),
                       !.backrefs_ = Append(d1.backrefs_, indices_idx),
                       !.indices_ = Put(d1.indices_, indices_idx, Key(data_idx, gen)),
                       !.ret = Ret("insert", Key(indices_idx, gen), TRUE)]

\* contains asserts key.idx() < indices_.size(): DenseSlotMap_ContainsOk.
DenseSlotMap_ContainsOk(d, key) == key.idx < Len(d.indices_)

DenseSlotMap_contains(d, key) == At(d.indices_, key.idx).gen = key.gen

DenseSlotMap_get(d, key) ==
    IF At(d.indices_, key.idx).idx < Len(d.data_)
    THEN At(d.data_, At(d.indices_, key.idx).idx)
    ELSE Garbage

DenseSlotMap_find(d, key) ==
    IF DenseSlotMap_contains(d, key) THEN DenseSlotMap_get(d, key) ELSE Absent

\* &data_[indices_[key.idx()].idx()]: the pointer get returns, as the
\* position in data_ it points to.
DenseSlotMap_get_position(d, key) == At(d.indices_, key.idx).idx

\* get_key as it would be if it took the position in data_ for the slot.
DenseSlotMap_get_key_direct(d, data_idx) ==
    Key(data_idx, At(d.indices_, data_idx).gen)

\* get_key(element) for the element at position data_idx of data_
\* (element - data_.data()).
DenseSlotMap_get_key(d, data_idx) ==
    Key(At(d.backrefs_, data_idx), At(d.indices_, At(d.backrefs_, data_idx)).gen)

Swap(s, i, j) == [s EXCEPT ![i + 1] = s[j + 1], ![j + 1] = s[i + 1]]

PopBack(s) == SubSeq(s, 1, Len(s) - 1)

\* The swap and pop as it would be if backrefs_ were popped without the swap.
remove_swap_pop_data_only(d, data_idx, last_idx) ==
    [d EXCEPT !.data_ = PopBack(Swap(d.data_, data_idx, last_idx)),
              !.backrefs_ = PopBack(d.backrefs_)]

\* The swap and pop as it would be if data_ were popped without the swap.
remove_swap_pop_last(d, data_idx, last_idx) ==
    [d EXCEPT !.data_ = PopBack(d.data_),
              !.backrefs_ = PopBack(Swap(d.backrefs_, data_idx, last_idx))]

\* remove as it would be if it left the index of the swapped element alone.
remove_fix_index_skipped(d, backref, data_idx) == d

\* remove as it would be if it kept the slot's generation.
remove_free_slot_same_gen(d, key) ==
    [d EXCEPT !.free_list_head_ = key.idx,
              !.indices_ = Put(d.indices_, key.idx, Key(d.free_list_head_, key.gen)),
              !.ret = Ret("remove", NullKey, TRUE)]

\* The steps of remove for a contained key whose element is at data_idx:
\* swap and pop data_ and backrefs_; re-point the indices_ entry of the
\* element now at data_idx; push the key's slot on the free list with the
\* next generation.
remove_swap_pop(d, data_idx, last_idx) ==
    [d EXCEPT !.data_ = PopBack(Swap(d.data_, data_idx, last_idx)),
              !.backrefs_ = PopBack(Swap(d.backrefs_, data_idx, last_idx))]

remove_fix_index(d, backref, data_idx) ==
    [d EXCEPT !.indices_ =
                 Put(d.indices_, backref, Key(data_idx, At(d.indices_, backref).gen))]

remove_free_slot(d, key) ==
    [d EXCEPT !.free_list_head_ = key.idx,
              !.indices_ = Put(d.indices_, key.idx,
                               next_generation(Key(d.free_list_head_, key.gen))),
              !.ret = Ret("remove", NullKey, TRUE)]

\* remove(key). When the element is the last one, backrefs_[data_idx] is read
\* after the pop, one past the end: crash is whether that read brings the
\* program down; otherwise it gives what pop_back left in that place.
DenseSlotMap_remove(d, key, crash) ==
    IF ~DenseSlotMap_ContainsOk(d, key) THEN DSMFail(d, "ub:remove.idx")
    ELSE IF ~DenseSlotMap_contains(d, key) THEN [d EXCEPT !.ret = Ret("remove", NullKey, FALSE)]
    ELSE IF ~(At(d.indices_, key.idx).idx <= Len(d.data_) - 1) THEN DSMFail(d, "ub:remove.swap")
    ELSE IF At(d.indices_, key.idx).idx = Len(d.data_) - 1 /\ crash
         THEN DSMFail(d, "ub:remove.backref")
    ELSE remove_free_slot(
            remove_fix_index(
                remove_swap_pop(d, At(d.indices_, key.idx).idx, Len(d.data_) - 1),
                At(Swap(d.backrefs_, At(d.indices_, key.idx).idx, Len(d.data_) - 1),
                   At(d.indices_, key.idx).idx),
                At(d.indices_, key.idx).idx),
            key)

\* Iteration with begin()/end(): the elements of data_ in order.
collect_dense(d) == d.data_

\* ------------------------------------------------------- sparsevector.hpp
\* A SparseVector object: data_ (the cells of the buffer), size_,
\* numOccupied_ and occupied_.
SVFail(sv, why) == [sv EXCEPT !.abort = why]

\* SparseVector(size); SparseVector() is the same object with size 0.
SparseVector(size) ==
    [data_ |-> Fill(size, Raw), size_ |-> size, numOccupied_ |-> 0,
     occupied_ |-> Fill(size, 0), abort |-> ""]

SparseVector_size(sv) == sv.size_

SparseVector_occupied(sv) == sv.numOccupied_

SparseVector_contains(sv, idx) == idx < Len(sv.occupied_) /\ At(sv.occupied_, idx) # 0

\* resize as it would be if it did not relocate the occupied cells.
SparseVector_resize_fresh(sv, size) ==
    IF ~(size > sv.size_) THEN SVFail(sv, "assert:SparseVector.resize")
    ELSE [sv EXCEPT !.data_ = Fill(size, Raw),
                    !.size_ = size,
                    !.occupied_ = sv.occupied_ \o Fill(size - Len(sv.occupied_), 0)]

\* resize(size): the occupied cells are move-constructed into the new buffer
\* at their index, the other cells of the new buffer hold nothing.
SparseVector_resize(sv, size) ==
    IF ~(size > sv.size_) THEN SVFail(sv, "assert:SparseVector.resize")
    ELSE [sv EXCEPT !.data_ = [j \in 1..size |->
                                  IF j <= sv.size_ /\ sv.occupied_[j] # 0
                                  THEN sv.data_[j] ELSE Raw],
                    !.size_ = size,
                    !.occupied_ = sv.occupied_ \o Fill(size - Len(sv.occupied_), 0)]

SparseVector_emplace(sv, idx, val) ==
    IF ~(idx < sv.size_) THEN SVFail(sv, "assert:emplace.index")
    ELSE IF SparseVector_contains(sv, idx) THEN SVFail(sv, "assert:emplace.contains")
    ELSE [sv EXCEPT !.data_ = Put(sv.data_, idx, Elem(val)),
                    !.occupied_ = Put(sv.occupied_, idx, 1),
                    !.numOccupied_ = sv.numOccupied_ + 1]

\* erase as it would be if it left numOccupied_ alone.
SparseVector_erase_uncounted(sv, idx) ==
    IF ~SparseVector_contains(sv, idx) THEN SVFail(sv, "assert:erase.contains")
    ELSE [sv EXCEPT !.data_ = Put(sv.data_, idx, Raw),
                    !.occupied_ = Put(sv.occupied_, idx, 0)]

SparseVector_erase(sv, idx) ==
    IF ~SparseVector_contains(sv, idx) THEN SVFail(sv, "assert:erase.contains")
    ELSE [sv EXCEPT !.data_ = Put(sv.data_, idx, Raw),
                    !.occupied_ = Put(sv.occupied_, idx, 0),
                    !.numOccupied_ = sv.numOccupied_ - 1]

\* get(idx) and operator[]: the assertion contains(idx) is the caller's to
\* check; the value of the cell, or garbage when nothing was constructed.
SparseVector_get(sv, idx) ==
    IF At(sv.data_, idx).tag = "value" THEN At(sv.data_, idx).v ELSE Garbage

\* sparse[idx] = val
SparseVector_assign(sv, idx, val) ==
    IF ~SparseVector_contains(sv, idx) THEN SVFail(sv, "assert:get.contains")
    ELSE [sv EXCEPT !.data_ = Put(sv.data_, idx, Elem(val))]

\* =================================================================== state
\* sm[kind]: three SlotMaps that differ only in the skipfield class and are
\* given the same calls; dsm: a DenseSlotMap.  A run exercises one of the
\* two containers, the other is Unused.  call is the call issued last (value
\* is the value inserted or the size asked of resize or reserve), nops
\* the number of calls issued.
\* field is a skipfield exercised on its own and unskipped the slots its
\* caller has left or made unskipped; id is a key made on its own, id.from
\* the key as constructed and id.key what next_generation has made of it.
\* sparse is a SparseVector exercised on its own and kept[i + 1] the value
\* its caller has emplaced or assigned last at index i (Absent: none, or
\* erased since).  Each is idle in the runs of the other components.
\* smHeld[kind] and dHeld are what the caller holds of a map: live, the
\* entries (key, val) for the keys insert returned that no remove has
\* removed; stale, one key remove returned true for (or NoStale).  For a
\* SlotMap n counts the inserts that returned and at is the number of the
\* insert that returned the key; for the DenseSlotMap, since counts the later
\* removes at the stale key's slot.
VARIABLES sm, smHeld, dsm, dHeld, field, unskipped, id, sparse, kept, call, nops

vars == <<sm, smHeld, dsm, dHeld, field, unskipped, id, sparse, kept, call, nops>>

Unused == [abort |-> "unused"]

NoStale == [st |-> "none", key |-> NullKey, at |-> 0, since |-> 0]

Stale(key, at) == [st |-> "removed", key |-> key, at |-> at, since |-> 0]

NoHeld == [live |-> {}, stale |-> NoStale, n |-> 0]

\* No key under test.
NoId == [from |-> NullKey, key |-> NullKey]

Entry(key, val, at) == [key |-> key, val |-> val, at |-> at]

Running(m) == m.abort = ""

\* The calls are issued while some map is still running.
SomeRunning == \E k \in SkipKinds : Running(sm[k])

\* What an insert that reads the link of a cell holding none may read.
JunkLinks == 0..MaxCap

InitSlotMap ==
    /\ \E paged \in BOOLEAN, cap \in InitCaps, gc \in GrowthConstants, gf \in GrowthFactors :
          sm = [k \in SkipKinds |-> SlotMap(k, paged, cap, gc, gf)]
    /\ smHeld = [k \in SkipKinds |-> NoHeld]
    /\ dsm = Unused
    /\ dHeld = NoHeld
    /\ field = Unused
    /\ unskipped = {}
    /\ id = NoId
    /\ call = Call("ctor", Absent)
    /\ sparse = Unused
    /\ kept = <<>>
    /\ nops = 0

InitDense ==
    /\ \E cap \in InitCaps, gc \in GrowthConstants, gf \in GrowthFactors :
          dsm = DenseSlotMap(cap, gc, gf)
    /\ dHeld = NoHeld
    /\ sm = [k \in SkipKinds |-> Unused]
    /\ smHeld = [k \in SkipKinds |-> NoHeld]
    /\ field = Unused
    /\ unskipped = {}
    /\ id = NoId
    /\ call = Call("ctor", Absent)
    /\ sparse = Unused
    /\ kept = <<>>
    /\ nops = 0

\* A call that returns nothing has returned, unless the program has ended.
Returned(m, op) == IF m.abort # "" THEN m ELSE [m EXCEPT !.ret = Ret(op, NullKey, TRUE)]

\* What the caller holds after insert(value) took map m to m2.
HeldInsert(h, m, m2, value) ==
    IF ~Running(m) \/ ~Running(m2) THEN h
    ELSE [h EXCEPT !.live = h.live \cup {Entry(m2.ret.key, value, h.n + 1)},
                   !.n = h.n + 1]

\* What the caller holds once the keys in gone have been removed; a key of
\* pick becomes the stale key.
HeldRemove(h, gone, pick) ==
    [h EXCEPT !.live = {e \in h.live : e.key \notin gone},
              !.stale = IF h.stale.st = "none" /\ \E e \in h.live : e.key \in gone \cap pick
                        THEN LET e == CHOOSE e \in h.live : e.key \in gone \cap pick
                             IN  Stale(e.key, e.at)
                        ELSE IF h.stale.st # "none" /\ \E key \in gone : key.idx = h.stale.key.idx
                             THEN [h.stale EXCEPT !.since = h.stale.since + 1]
                        ELSE h.stale]

\* The keys a caller holds: the default-constructed key, the live keys and
\* the stale key.
KeysOf(h) ==
    {NullKey} \cup {e.key : e \in h.live}
    \cup (IF h.stale.st # "none" THEN {h.stale.key} ELSE {})

\* The keys of the occupied slots of map m.
SlotKeys(m) ==
    {Key(i, At(m.storage_.gen, i)) :
        i \in {j \in 0..(SlotMap_capacity(m) - 1) : At(m.storage_.gen, j) # 0}}

\* Room for the growth an insert or resize of map m brings.
GrowthFits(m, size) ==
    /\ size <= MaxCap
    /\ SlotMap_capacity(m) + (IF m.storage_.paged THEN m.storage_.page_size_ ELSE 0) <= MaxCap

\* insert(value) on every running map.
SMInsert ==
    /\ nops < MaxOps
    /\ SomeRunning
    /\ \A k \in SkipKinds :
          Running(sm[k]) /\ sm[k].free_list_head_ >= SlotMap_capacity(sm[k])
             => GrowthFits(sm[k], GrownSize(sm[k]))
    /\ \E value \in Values,
          crash \in IF \E k \in SkipKinds :
                         /\ Running(sm[k])
                         /\ sm[k].storage_.paged
                         /\ sm[k].free_list_head_ >= SlotMap_capacity(sm[k])
                    THEN BOOLEAN ELSE {FALSE},
          junk \in IF \E k \in SkipKinds :
                        Running(sm[k]) /\ ReadsJunk(sm[k].storage_, sm[k].free_list_head_)
                   THEN JunkLinks ELSE {0} :
          /\ sm' = [k \in SkipKinds |->
                      IF Running(sm[k])
                      THEN SlotMap_insert(sm[k], value, crash, junk) ELSE sm[k]]
          /\ smHeld' = [k \in SkipKinds |-> HeldInsert(smHeld[k], sm[k], sm'[k], value)]
          /\ call' = Call("insert", value)
    /\ nops' = nops + 1
    /\ UNCHANGED <<dsm, dHeld, field, unskipped, id, sparse, kept>>

\* remove(key) for a held key; its index is in range (remove asserts it is).
\* follow: the caller keeps the removed key to try it later.
SMRemove ==
    /\ nops < MaxOps
    /\ SomeRunning
    /\ \E key \in UNION {KeysOf(smHeld[k]) : k \in {j \in SkipKinds : Running(sm[j])}},
          follow \in BOOLEAN :
          /\ \A k \in SkipKinds : Running(sm[k]) => key.idx < SlotMap_capacity(sm[k])
          /\ sm' = [k \in SkipKinds |->
                      IF Running(sm[k]) THEN SlotMap_remove(sm[k], key) ELSE sm[k]]
          /\ smHeld' = [k \in SkipKinds |->
                          IF Running(sm[k]) /\ Running(sm'[k]) /\ sm'[k].ret.ok
                          THEN HeldRemove(smHeld[k], {key}, IF follow THEN {key} ELSE {})
                          ELSE smHeld[k]]
          /\ follow => \E k \in SkipKinds : smHeld'[k].stale # smHeld[k].stale
    /\ call' = Call("remove", Absent)
    /\ nops' = nops + 1
    /\ UNCHANGED <<dsm, dHeld, field, unskipped, id, sparse, kept>>

\* resize(n) for n larger than the capacity.
SMResize ==
    /\ nops < MaxOps
    /\ SomeRunning
    /\ \E n \in 1..MaxCap,
          crash \in IF \E k \in SkipKinds : Running(sm[k]) /\ sm[k].storage_.paged
                    THEN BOOLEAN ELSE {FALSE} :
          /\ \A k \in SkipKinds :
                Running(sm[k]) => n > SlotMap_capacity(sm[k]) /\ GrowthFits(sm[k], n)
          /\ sm' = [k \in SkipKinds |->
                      IF Running(sm[k])
                      THEN Returned(SlotMap_resize(sm[k], n, crash), "resize")
                      ELSE sm[k]]
          /\ call' = Call("resize", n)
    /\ nops' = nops + 1
    /\ UNCHANGED <<smHeld, dsm, dHeld, field, unskipped, id, sparse, kept>>

\* clear(); it removes the keys of the occupied slots. pick: the removed
\* key the caller keeps to try it later, if any.
SMClear ==
    /\ nops < MaxOps
    /\ SomeRunning
    /\ sm' = [k \in SkipKinds |->
                IF Running(sm[k]) THEN SlotMap_clear(sm[k]) ELSE sm[k]]
    /\ \E pick \in {{}} \cup {{key} : key \in UNION {SlotKeys(sm[k]) :
                                          k \in {j \in SkipKinds : Running(sm[j])}}} :
          /\ smHeld' = [k \in SkipKinds |->
                          IF Running(sm[k]) /\ Running(sm'[k])
                          THEN HeldRemove(smHeld[k], SlotKeys(sm[k]), pick)
                          ELSE smHeld[k]]
          /\ pick # {} => \E k \in SkipKinds : smHeld'[k].stale.key \in pick
    /\ call' = Call("clear", Absent)
    /\ nops' = nops + 1
    /\ UNCHANGED <<dsm, dHeld, field, unskipped, id, sparse, kept>>

\* insert(value) on the dense map.
DInsert ==
    /\ nops < MaxOps
    /\ Running(dsm)
    /\ Len(dsm.indices_) = Len(dsm.data_) => DenseGrownSize(dsm) <= MaxCap
    /\ \E value \in Values :
          /\ dsm' = DenseSlotMap_insert(dsm, value)
          /\ dHeld' = HeldInsert(dHeld, dsm, dsm', value)
          /\ call' = Call("insert", value)
    /\ nops' = nops + 1
    /\ UNCHANGED <<sm, smHeld, field, unskipped, id, sparse, kept>>

\* remove(key) for a held key.
DRemove ==
    /\ nops < MaxOps
    /\ Running(dsm)
    /\ \E key \in KeysOf(dHeld), follow \in BOOLEAN, crash \in BOOLEAN :
          /\ DenseSlotMap_ContainsOk(dsm, key)
          /\ crash => /\ DenseSlotMap_contains(dsm, key)
                      /\ At(dsm.indices_, key.idx).idx = Len(dsm.data_) - 1
          /\ dsm' = DenseSlotMap_remove(dsm, key, crash)
          /\ dHeld' = IF Running(dsm') /\ dsm'.ret.ok
                      THEN HeldRemove(dHeld, {key}, IF follow THEN {key} ELSE {})
                      ELSE dHeld
          /\ follow => dHeld'.stale # dHeld.stale
    /\ call' = Call("remove", Absent)
    /\ nops' = nops + 1
    /\ UNCHANGED <<sm, smHeld, field, unskipped, id, sparse, kept>>

\* reserve(n) for n larger than the capacity.
DReserve ==
    /\ nops < MaxOps
    /\ Running(dsm)
    /\ \E n \in 1..MaxCap :
          /\ n > DenseSlotMap_capacity(dsm)
          /\ dsm' = Returned(DenseSlotMap_reserve(dsm, n), "reserve")
          /\ call' = Call("reserve", n)
    /\ nops' = nops + 1
    /\ UNCHANGED <<sm, smHeld, dHeld, field, unskipped, id, sparse, kept>>

NextSlotMap == SMInsert \/ SMRemove \/ SMResize \/ SMClear

NextDense == DInsert \/ DRemove \/ DReserve

\* A SlotMap run, a DenseSlotMap run, and a run of either container.
SpecSlotMap == InitSlotMap /\ [][NextSlotMap]_vars

SpecDense == InitDense /\ [][NextDense]_vars

Init == InitSlotMap \/ InitDense

Next == NextSlotMap \/ NextDense

Spec == Init /\ [][Next]_vars

\* -------------------------------------------------- a skipfield on its own
\* The largest size a skipfield is resized to.
MaxField == MaxCap + 2

\* tests/skipfield.cpp collect: the walk over the skipfield from slot i on,
\* giving the slots it visits in the order it visits them.
RECURSIVE WalkFrom(_, _)
WalkFrom(sf, i) ==
    IF ~(i < Len(sf.f)) THEN <<>>
    ELSE IF get_num_skipped(sf, i) = 0 THEN <<i>> \o WalkFrom(sf, i + 1)
    ELSE WalkFrom(sf, i + get_num_skipped(sf, i))

collect_skipfield(sf) == WalkFrom(sf, 0)

\* SF sf(size, init_skipped) for an IntSkipfield or a BoolSkipfield.
InitSkipfield ==
    /\ \E kind \in {"Int", "Bool"}, size \in 1..MaxCap, init_skipped \in BOOLEAN :
          /\ field = Skipfield(kind, size, init_skipped)
          /\ unskipped = IF init_skipped THEN {} ELSE 0..(size - 1)
    /\ sm = [k \in SkipKinds |-> Unused]
    /\ smHeld = [k \in SkipKinds |-> NoHeld]
    /\ dsm = Unused
    /\ dHeld = NoHeld
    /\ id = NoId
    /\ call = Call("ctor", Absent)
    /\ sparse = Unused
    /\ kept = <<>>
    /\ nops = 0

\* sf.set_skipped(idx) on a slot that reports 0.
SFSetSkipped ==
    /\ nops < MaxOps
    /\ Running(field)
    /\ \E idx \in 0..(Len(field.f) - 1) :
          /\ get_num_skipped(field, idx) = 0
          /\ field' = set_skipped(field, idx)
          /\ unskipped' = unskipped \ {idx}
          /\ call' = Call("set_skipped", idx)
    /\ nops' = nops + 1
    /\ UNCHANGED <<sm, smHeld, dsm, dHeld, id, sparse, kept>>

\* sf.set_not_skipped(idx) on a slot that reports more than 0.
SFSetNotSkipped ==
    /\ nops < MaxOps
    /\ Running(field)
    /\ \E idx \in 0..(Len(field.f) - 1) :
          /\ get_num_skipped(field, idx) > 0
          /\ field' = set_not_skipped(field, idx)
          /\ unskipped' = unskipped \cup {idx}
          /\ call' = Call("set_not_skipped", idx)
    /\ nops' = nops + 1
    /\ UNCHANGED <<sm, smHeld, dsm, dHeld, id, sparse, kept>>

\* sf.resize(size, init_skipped) to a larger size.
SFResize ==
    /\ nops < MaxOps
    /\ Running(field)
    /\ \E size \in 1..MaxField, init_skipped \in BOOLEAN :
          /\ size > Len(field.f)
          /\ field' = skipfield_resize(field, size, init_skipped)
          /\ unskipped' = IF init_skipped THEN unskipped
                          ELSE unskipped \cup (Len(field.f)..(size - 1))
          /\ call' = Call("resize", [size |-> size, init_skipped |-> init_skipped])
    /\ nops' = nops + 1
    /\ UNCHANGED <<sm, smHeld, dsm, dHeld, id, sparse, kept>>

NextSkipfield == SFSetSkipped \/ SFSetNotSkipped \/ SFResize

NextSkipfieldSet == SFSetSkipped \/ SFSetNotSkipped

\* A skipfield run, and one that never resizes the skipfield.
SpecSkipfield == InitSkipfield /\ [][NextSkipfield]_vars

SpecSkipfieldSet == InitSkipfield /\ [][NextSkipfieldSet]_vars

\* -------------------------------------------------------- a key on its own
\* The constructor arguments: -1 (as max() passes it), the values of the
\* index type and values too large for it.
IdArgs == -1..(2 * Pow2(IdxBits))

\* Id(i, g) or Id() of any key type; call keeps the arguments.
InitKey ==
    /\ \E T \in IdTypes :
          \/ \E i \in IdArgs, g \in IdArgs :
                /\ id = [from |-> Id(T, i, g), key |-> Id(T, i, g)]
                /\ call = Call("Id(i, g)", [i |-> i, g |-> g])
          \/ /\ id = [from |-> Id0(T), key |-> Id0(T)]
             /\ call = Call("Id()", Absent)
    /\ sm = [k \in SkipKinds |-> Unused]
    /\ smHeld = [k \in SkipKinds |-> NoHeld]
    /\ dsm = Unused
    /\ dHeld = NoHeld
    /\ field = Unused
    /\ unskipped = {}
    /\ sparse = Unused
    /\ kept = <<>>
    /\ nops = 0

\* id = id.next_generation()
KeyNextGeneration ==
    /\ nops < MaxOps
    /\ id # NoId
    /\ id' = [id EXCEPT !.key = Id_next_generation(id.key)]
    /\ call' = Call("next_generation", Absent)
    /\ nops' = nops + 1
    /\ UNCHANGED <<sm, smHeld, dsm, dHeld, field, unskipped, sparse, kept>>

NextKey == KeyNextGeneration

SpecKey == InitKey /\ [][NextKey]_vars

\* ----------------------------------------------------- a SparseVector on its own
\* SparseVector<std::string> sparse(size), or sparse() for size 0.
InitSparse ==
    /\ \E size \in 0..MaxCap :
          /\ sparse = SparseVector(size)
          /\ kept = Fill(size, Absent)
    /\ sm = [k \in SkipKinds |-> Unused]
    /\ smHeld = [k \in SkipKinds |-> NoHeld]
    /\ dsm = Unused
    /\ dHeld = NoHeld
    /\ field = Unused
    /\ unskipped = {}
    /\ id = NoId
    /\ call = Call("ctor", Absent)
    /\ nops = 0

\* sparse.emplace(idx, val) on an unoccupied index below size().
SVEmplace ==
    /\ nops < MaxOps
    /\ Running(sparse)
    /\ \E idx \in 0..(SparseVector_size(sparse) - 1), val \in Values :
          /\ ~SparseVector_contains(sparse, idx)
          /\ sparse' = SparseVector_emplace(sparse, idx, val)
          /\ kept' = Put(kept, idx, val)
          /\ call' = Call("emplace", [idx |-> idx, val |-> val])
    /\ nops' = nops + 1
    /\ UNCHANGED <<sm, smHeld, dsm, dHeld, field, unskipped, id>>

\* sparse.erase(idx) on an occupied index.
SVErase ==
    /\ nops < MaxOps
    /\ Running(sparse)
    /\ \E idx \in 0..(SparseVector_size(sparse) - 1) :
          /\ SparseVector_contains(sparse, idx)
          /\ sparse' = SparseVector_erase(sparse, idx)
          /\ kept' = Put(kept, idx, Absent)
          /\ call' = Call("erase", [idx |-> idx, val |-> Absent])
    /\ nops' = nops + 1
    /\ UNCHANGED <<sm, smHeld, dsm, dHeld, field, unskipped, id>>

\* sparse[idx] = val on an occupied index.
SVAssign ==
    /\ nops < MaxOps
    /\ Running(sparse)
    /\ \E idx \in 0..(SparseVector_size(sparse) - 1), val \in Values :
          /\ SparseVector_contains(sparse, idx)
          /\ sparse' = SparseVector_assign(sparse, idx, val)
          /\ kept' = Put(kept, idx, val)
          /\ call' = Call("assign", [idx |-> idx, val |-> val])
    /\ nops' = nops + 1
    /\ UNCHANGED <<sm, smHeld, dsm, dHeld, field, unskipped, id>>

\* sparse.resize(size) to a larger size.
SVResize ==
    /\ nops < MaxOps
    /\ Running(sparse)
    /\ \E size \in 1..MaxField :
          /\ size > SparseVector_size(sparse)
          /\ sparse' = SparseVector_resize(sparse, size)
          /\ kept' = kept \o Fill(size - Len(kept), Absent)
          /\ call' = Call("resize", [idx |-> size, val |-> Absent])
    /\ nops' = nops + 1
    /\ UNCHANGED <<sm, smHeld, dsm, dHeld, field, unskipped, id>>

NextSparse == SVEmplace \/ SVErase \/ SVAssign \/ SVResize

SpecSparse == InitSparse /\ [][NextSparse]_vars

\* ================================================================== claims

\* The stale key of a SlotMap has not come round again: fewer inserts
\* returned after the one that issued it than there are generations.
SlotMapNoWrap(h) == h.n - h.stale.at < GenMask

\* C1: a key that remove returned true for is never contained afterwards
\* and find gives nullptr for it, whatever insert, remove, resize and clear
\* calls follow and even if its slot is occupied again, as long as the
\* generation counter has not wrapped.
C1_StaleKeyNotContained ==
    \A k \in SkipKinds :
        (Running(sm[k]) /\ smHeld[k].stale.st = "removed" /\ SlotMapNoWrap(smHeld[k]))
           => /\ ~SlotMap_contains(sm[k], smHeld[k].stale.key)
              /\ SlotMap_find(sm[k], smHeld[k].stale.key) = Absent

\* C1's case: the slot of the removed key is occupied again.
C1_Witness ==
    \E k \in SkipKinds :
        /\ Running(sm[k])
        /\ smHeld[k].stale.st = "removed"
        /\ SlotMapNoWrap(smHeld[k])
        /\ At(sm[k].storage_.gen, smHeld[k].stale.key.idx) # 0

\* The stale key of a DenseSlotMap has not come round again: its slot has
\* been freed fewer times after its removal than would bring the
\* generation back.
DenseNoWrap(h) == h.stale.since < GenMask - 1

\* C2: a key that remove returned true for is never contained in the
\* DenseSlotMap afterwards and find gives nullptr for it, whatever calls
\* follow and even if its slot is in use again, as long as the slot's
\* generation has not wrapped.
C2_DenseStaleKeyNotContained ==
    (Running(dsm) /\ dHeld.stale.st = "removed" /\ DenseNoWrap(dHeld))
       => /\ ~DenseSlotMap_contains(dsm, dHeld.stale.key)
          /\ DenseSlotMap_find(dsm, dHeld.stale.key) = Absent

\* C2's case: the slot of the removed key holds a live key again.
C2_Witness ==
    /\ Running(dsm)
    /\ dHeld.stale.st = "removed"
    /\ DenseNoWrap(dHeld)
    /\ \E p \in 0..(Len(dsm.backrefs_) - 1) : At(dsm.backrefs_, p) = dHeld.stale.key.idx

\* C3: every key insert returned and no remove or clear has removed is
\* contained, and get and find give the value inserted with it, right after
\* the insert and after any later inserts, growth and removes of other keys.
C3_RoundTrip ==
    \A k \in SkipKinds :
        Running(sm[k]) =>
           \A e \in smHeld[k].live :
               /\ SlotMap_ContainsOk(sm[k], e.key)
               /\ SlotMap_contains(sm[k], e.key)
               /\ SlotMap_get(sm[k], e.key) = e.val
               /\ SlotMap_find(sm[k], e.key) = e.val

\* C3's case: the map has grown and another key has just been removed while
\* keys are live.
C3_Witness ==
    \E k \in SkipKinds :
        /\ Running(sm[k])
        /\ SlotMap_capacity(sm[k]) > sm[k].storage_.page_size_
        /\ call.op = "remove"
        /\ sm[k].ret.ok
        /\ smHeld[k].live # {}

\* C4: every key insert returned and no remove has removed is contained in
\* the DenseSlotMap, and get and find give the value inserted with it, also
\* after the swap-and-pop of a remove has moved its element.
C4_DenseRoundTrip ==
    Running(dsm) =>
       \A e \in dHeld.live :
           /\ DenseSlotMap_ContainsOk(dsm, e.key)
           /\ DenseSlotMap_contains(dsm, e.key)
           /\ DenseSlotMap_get(dsm, e.key) = e.val
           /\ DenseSlotMap_find(dsm, e.key) = e.val

\* C4's case: three inserts, then the remove of the first key; the element
\* of the third key (slot 2) has been moved to position 0.
C4_Witness ==
    /\ Running(dsm)
    /\ nops = 4
    /\ call.op = "remove"
    /\ dsm.ret.ok
    /\ Len(dsm.data_) = 2
    /\ \E e \in dHeld.live : e.key.idx = 2 /\ At(dsm.indices_, 2).idx = 0

\* C5: data_ and backrefs_ have the same length, and for every position p
\* backrefs_[p] is a slot whose indices_ entry points back at p and whose
\* key is a live key inserted with the value data_[p]; distinct positions
\* have distinct back-references.
C5_DenseBackrefs ==
    Running(dsm) =>
       /\ Len(dsm.backrefs_) = Len(dsm.data_)
       /\ \A p \in 0..(Len(dsm.data_) - 1) :
             /\ At(dsm.backrefs_, p) < Len(dsm.indices_)
             /\ At(dsm.indices_, At(dsm.backrefs_, p)).idx = p
             /\ \E e \in dHeld.live :
                   /\ e.key = Key(At(dsm.backrefs_, p),
                                  At(dsm.indices_, At(dsm.backrefs_, p)).gen)
                   /\ e.val = At(dsm.data_, p)
       /\ \A p, q \in 0..(Len(dsm.backrefs_) - 1) :
             p # q => At(dsm.backrefs_, p) # At(dsm.backrefs_, q)

\* C5's case: a remove has swapped the last of three elements into
\* position 0, so that backrefs_ is no longer in slot order.
C5_Witness ==
    /\ Running(dsm)
    /\ nops = 4
    /\ call.op = "remove"
    /\ dsm.ret.ok
    /\ dsm.backrefs_ = <<2, 1>>

\* The number of times iteration yields value v.
Yielded(d, v) == Cardinality({p \in 1..Len(collect_dense(d)) : collect_dense(d)[p] = v})

\* C6: iterating the DenseSlotMap yields exactly the values of the live
\* keys, each as often as live keys hold it, and nothing else; size() is
\* the number of live keys.
C6_DenseIteration ==
    Running(dsm) =>
       /\ DenseSlotMap_size(dsm) = Cardinality(dHeld.live)
       /\ Len(collect_dense(dsm)) = Cardinality(dHeld.live)
       /\ \A p \in 1..Len(collect_dense(dsm)) : collect_dense(dsm)[p] \in Values
       /\ \A v \in Values : Yielded(dsm, v) = Cardinality({e \in dHeld.live : e.val = v})

\* C6's case: after a remove, two live keys hold different values and a
\* third key has been removed.
C6_Witness ==
    /\ Running(dsm)
    /\ call.op = "remove"
    /\ dsm.ret.ok
    /\ Cardinality(dHeld.live) = 2
    /\ \E e1, e2 \in dHeld.live : e1.val # e2.val

\* The keys of the occupied slots of map m from slot i on, in ascending
\* slot order.
RECURSIVE OccupiedFrom(_, _)
OccupiedFrom(m, i) ==
    IF ~(i < SlotMap_capacity(m)) THEN <<>>
    ELSE IF At(m.storage_.gen, i) # 0
         THEN <<Key(i, At(m.storage_.gen, i))>> \o OccupiedFrom(m, i + 1)
    ELSE OccupiedFrom(m, i + 1)

\* C7: for each skipfield class, in every state reached by insert, remove,
\* resize and clear, next() applied repeatedly from the invalid key returns
\* the key of every occupied slot once, in ascending slot order and with
\* the slot's generation, and then the invalid key.
C7_NextVisitsLiveKeys ==
    \A k \in SkipKinds :
        Running(sm[k]) => collect(sm[k]) = [ok |-> TRUE, keys |-> OccupiedFrom(sm[k], 0)]

\* The set of keys an iteration returned.
KeySet(c) == {c.keys[j] : j \in 1..Len(c.keys)}

\* C8: three maps that differ only in the skipfield class and are given the
\* same calls give the same set of keys by next() iteration from the
\* invalid key, in every state reached.
C8_SkipfieldsAgree ==
    \A a, b \in SkipKinds :
        (Running(sm[a]) /\ Running(sm[b]))
           => /\ collect(sm[a]).ok
              /\ collect(sm[b]).ok
              /\ KeySet(collect(sm[a])) = KeySet(collect(sm[b]))

\* The key insert returned when it took map m to m2 is none of the live
\* keys of h and, unless wrapped, not the stale key of h.
FreshKey(h, m, m2, wrapped) ==
    (Running(m) /\ Running(m2))
       => /\ \A e \in h.live : m2.ret.key # e.key
          /\ (h.stale.st = "removed" /\ ~wrapped) => m2.ret.key # h.stale.key

\* C9: for SlotMap and DenseSlotMap, the key an insert returns equals no key
\* that is live at the time, and equals no removed key as long as the
\* generation has not wrapped round to that key's generation.
C9_KeysUnique ==
    [][call'.op = "insert" =>
          /\ \A k \in SkipKinds :
                FreshKey(smHeld[k], sm[k], sm'[k], ~SlotMapNoWrap(smHeld'[k]))
          /\ FreshKey(dHeld, dsm, dsm', ~DenseNoWrap(dHeld))]_vars

\* C9's case: an insert has just returned a key for the slot of a removed
\* key while another key is live, in a SlotMap or in a DenseSlotMap.
C9_Witness ==
    \/ \E k \in SkipKinds :
          /\ Running(sm[k])
          /\ call.op = "insert"
          /\ smHeld[k].stale.st = "removed"
          /\ SlotMapNoWrap(smHeld[k])
          /\ sm[k].ret.key.idx = smHeld[k].stale.key.idx
          /\ Cardinality(smHeld[k].live) >= 2
    \/ /\ Running(dsm)
       /\ call.op = "insert"
       /\ dHeld.stale.st = "removed"
       /\ DenseNoWrap(dHeld)
       /\ dsm.ret.key.idx = dHeld.stale.key.idx
       /\ Cardinality(dHeld.live) >= 2

\* C10: in a SlotMap constructed with growth_constant 2 and growth_factor
\* 1.0, with either storage, an insert issued when every slot is occupied
\* returns a key that is contained and gives the inserted value, keeps every
\* live key with its value, adds one to size() and at least 2 to capacity().
C10_GrowingInsert ==
    [][\A k \in SkipKinds :
          (/\ call'.op = "insert"
           /\ Running(sm[k])
           /\ sm[k].growth_constant_ = 2
           /\ sm[k].growth_factor_ = 2
           /\ \A i \in 0..(SlotMap_capacity(sm[k]) - 1) : At(sm[k].storage_.gen, i) # 0)
             => /\ Running(sm'[k])
                /\ SlotMap_ContainsOk(sm'[k], sm'[k].ret.key)
                /\ SlotMap_contains(sm'[k], sm'[k].ret.key)
                /\ SlotMap_get(sm'[k], sm'[k].ret.key) = call'.value
                /\ \A key \in SlotKeys(sm[k]) :
                      /\ SlotMap_contains(sm'[k], key)
                      /\ SlotMap_get(sm'[k], key) = SlotMap_get(sm[k], key)
                /\ SlotMap_size(sm'[k]) = SlotMap_size(sm[k]) + 1
                /\ SlotMap_capacity(sm'[k]) >= SlotMap_capacity(sm[k]) + 2]_vars

\* C11: in a SlotMap with growth_constant >= 1, in every state reached by
\* insert, remove, resize and clear, insert fails no assertion and returns a
\* key that is contained; when it pops the free list (free_list_head_ below
\* the capacity) the slot at the head has generation 0.
C11_InsertCompletes ==
    [][\A k \in SkipKinds :
          (/\ call'.op = "insert"
           /\ Running(sm[k])
           /\ sm[k].growth_constant_ >= 1)
             => /\ sm[k].free_list_head_ < SlotMap_capacity(sm[k])
                      => At(sm[k].storage_.gen, sm[k].free_list_head_) = 0
                /\ Running(sm'[k])
                /\ SlotMap_ContainsOk(sm'[k], sm'[k].ret.key)
                /\ SlotMap_contains(sm'[k], sm'[k].ret.key)]_vars

\* Every slot of SlotMap m is occupied.
AllOccupied(m) == \A i \in 0..(SlotMap_capacity(m) - 1) : At(m.storage_.gen, i) # 0

\* C12: in a SlotMap or DenseSlotMap with growth_constant 0 and
\* growth_factor 1.0, an insert issued when all capacity() slots are
\* occupied ends in the 'full' assertion with nothing else of the container
\* changed, and an insert issued while size() < capacity() returns a
\* contained key and leaves the capacity as it is.
C12_FullIsFatal ==
    [][call'.op = "insert" =>
          /\ \A k \in SkipKinds :
                (Running(sm[k]) /\ sm[k].growth_constant_ = 0 /\ sm[k].growth_factor_ = 2)
                   => /\ AllOccupied(sm[k])
                            => sm'[k] = [sm[k] EXCEPT !.abort = "assert:SlotMap full"]
                      /\ SlotMap_size(sm[k]) < SlotMap_capacity(sm[k])
                            => /\ Running(sm'[k])
                               /\ SlotMap_capacity(sm'[k]) = SlotMap_capacity(sm[k])
                               /\ SlotMap_contains(sm'[k], sm'[k].ret.key)
          /\ (Running(dsm) /\ dsm.growth_constant_ = 0 /\ dsm.growth_factor_ = 2)
                => /\ DenseSlotMap_size(dsm) = DenseSlotMap_capacity(dsm)
                         => dsm' = [dsm EXCEPT !.abort = "assert:DenseSlotMap full"]
                   /\ DenseSlotMap_size(dsm) < DenseSlotMap_capacity(dsm)
                         => /\ Running(dsm')
                            /\ DenseSlotMap_capacity(dsm') = DenseSlotMap_capacity(dsm)
                            /\ DenseSlotMap_contains(dsm', dsm'.ret.key)]_vars

\* floor(capacity * growth_factor) + growth_constant, growth_factor in halves.
GrowthTarget(capacity, growth_constant, growth_factor) ==
    (capacity * growth_factor) \div 2 + growth_constant

\* C13: when insert finds the container full and grows it, capacity()
\* afterwards is floor(old capacity * growth_factor) + growth_constant, for
\* SlotMap with growable storage, SlotMap with paged storage and
\* DenseSlotMap.
C13_GrownCapacity ==
    [][call'.op = "insert" =>
          /\ \A k \in SkipKinds :
                (/\ Running(sm[k])
                 /\ Running(sm'[k])
                 /\ sm[k].free_list_head_ >= SlotMap_capacity(sm[k]))
                   => SlotMap_capacity(sm'[k]) =
                         GrowthTarget(SlotMap_capacity(sm[k]), sm[k].growth_constant_,
                                      sm[k].growth_factor_)
          /\ (/\ Running(dsm)
              /\ Running(dsm')
              /\ DenseSlotMap_size(dsm) = DenseSlotMap_capacity(dsm))
                => DenseSlotMap_capacity(dsm') =
                      GrowthTarget(DenseSlotMap_capacity(dsm), dsm.growth_constant_,
                                   dsm.growth_factor_)]_vars

\* What remove leaves of map m when it returns false: m itself.
RefusedRemove(m) == [m EXCEPT !.ret = Ret("remove", NullKey, FALSE)]

\* C14: remove(k) returns false and leaves the whole container as it is
\* when k was removed before (and not issued again by a wrapped
\* generation), whether its slot is free or in use by another key or the
\* container is empty; for SlotMap also when k is the invalid key.
C14_RemoveRefuses ==
    /\ \A k \in SkipKinds :
          Running(sm[k]) =>
             /\ SlotMap_remove(sm[k], NullKey) = RefusedRemove(sm[k])
             /\ (smHeld[k].stale.st = "removed" /\ SlotMapNoWrap(smHeld[k]))
                   => SlotMap_remove(sm[k], smHeld[k].stale.key) = RefusedRemove(sm[k])
    /\ (Running(dsm) /\ dHeld.stale.st = "removed" /\ DenseNoWrap(dHeld))
          => \A crash \in BOOLEAN :
                DenseSlotMap_remove(dsm, dHeld.stale.key, crash) = RefusedRemove(dsm)

\* C14's case: a remove has just returned false, in a SlotMap whose removed
\* key's slot is occupied by another key, or in an empty DenseSlotMap that
\* holds a removed key.
C14_Witness ==
    /\ call.op = "remove"
    /\ \/ \E k \in SkipKinds :
             /\ Running(sm[k])
             /\ ~sm[k].ret.ok
             /\ smHeld[k].stale.st = "removed"
             /\ At(sm[k].storage_.gen, smHeld[k].stale.key.idx) # 0
       \/ /\ Running(dsm)
          /\ ~dsm.ret.ok
          /\ dHeld.stale.st = "removed"
          /\ DenseSlotMap_size(dsm) = 0

\* Slot i of the DenseSlotMap's indices_ is on the free list: no element
\* refers back to it.
DenseSlotFree(d, i) == \A p \in 0..(Len(d.backrefs_) - 1) : At(d.backrefs_, p) # i

\* Key (i, g) was never returned by an insert of DenseSlotMap d: a slot's
\* generation only advances (fewer than GenMask inserts have returned, so
\* none has wrapped), so no key of the slot has a later generation than the
\* stored one, and the stored one is issued only once the slot is taken.
NeverIssued(d, h, i, g) ==
    /\ h.n < GenMask
    /\ \/ g = 0
       \/ g > At(d.indices_, i).gen
       \/ g = At(d.indices_, i).gen /\ DenseSlotFree(d, i)

\* C15: for every key never returned by insert, of any index below
\* capacity() and any generation, the generation stored in a free slot
\* included, the DenseSlotMap's contains is false, find gives nullptr and
\* remove returns false and changes nothing.
C15_DenseUnissuedKey ==
    Running(dsm) =>
       \A i \in 0..(DenseSlotMap_capacity(dsm) - 1), g \in 0..GenMask :
           NeverIssued(dsm, dHeld, i, g)
              => /\ ~DenseSlotMap_contains(dsm, Key(i, g))
                 /\ DenseSlotMap_find(dsm, Key(i, g)) = Absent
                 /\ \A crash \in BOOLEAN :
                       DenseSlotMap_remove(dsm, Key(i, g), crash) = RefusedRemove(dsm)

\* The slots the free list of map m visits from slot i on, following the
\* stored links for at most fuel steps; a cell holding no link ends it.
RECURSIVE FreeChain(_, _, _)
FreeChain(m, i, fuel) ==
    IF fuel = 0 \/ ~(i < Len(m.storage_.cell)) \/ ~(i < SlotMap_capacity(m)) THEN {}
    ELSE IF At(m.storage_.cell, i).tag # "link" THEN {i}
    ELSE {i} \cup FreeChain(m, At(m.storage_.cell, i).v, fuel - 1)

\* The free list of map m covers every slot.
FreeListCoversAll(m) ==
    FreeChain(m, m.free_list_head_, SlotMap_capacity(m)) = 0..(SlotMap_capacity(m) - 1)

\* The skipfield of map m reports every slot skipped.
SkipfieldCoversAll(m) ==
    \/ m.skipfield_.kind = "Null"
    \/ /\ Len(m.skipfield_.f) = SlotMap_capacity(m)
       /\ \A i \in 0..(SlotMap_capacity(m) - 1) : get_num_skipped(m.skipfield_, i) > 0

\* C16: after clear() in any reachable state size() is 0, every slot has
\* generation 0, every key issued before is not contained and find gives
\* nullptr for it, next of the invalid key is the invalid key, and the free
\* list and the skipfield cover every slot.
C16_ClearEmpties ==
    [][\A k \in SkipKinds :
          (call'.op = "clear" /\ Running(sm[k]))
             => /\ Running(sm'[k])
                /\ SlotMap_size(sm'[k]) = 0
                /\ \A i \in 0..(SlotMap_capacity(sm'[k]) - 1) : At(sm'[k].storage_.gen, i) = 0
                /\ \A key \in KeysOf(smHeld[k]) \cup SlotKeys(sm[k]) :
                      /\ ~SlotMap_contains(sm'[k], key)
                      /\ SlotMap_find(sm'[k], key) = Absent
                /\ SlotMap_next(sm'[k], NullKey) = [ok |-> TRUE, key |-> NullKey]
                /\ FreeListCoversAll(sm'[k])
                /\ SkipfieldCoversAll(sm'[k])]_vars

\* C17: a resize(n) of a SlotMap or a reserve(n) of a DenseSlotMap with
\* n > capacity() returns (with paged storage: unless the write past the page
\* table has ended the program) and leaves the live keys, the value of every
\* live key, the absence of the removed key and size() as they were; after
\* reserve capacity() is n and data_ holds the same values in the same order.
C17_ResizeKeepsContents ==
    [][/\ call'.op = "resize"
          => \A k \in SkipKinds :
                (Running(sm[k]) /\ (sm[k].storage_.paged => Running(sm'[k])))
                   => /\ Running(sm'[k])
                      /\ SlotKeys(sm'[k]) = SlotKeys(sm[k])
                      /\ SlotMap_size(sm'[k]) = SlotMap_size(sm[k])
                      /\ \A e \in smHeld[k].live :
                            /\ SlotMap_contains(sm'[k], e.key)
                            /\ SlotMap_get(sm'[k], e.key) = e.val
                            /\ SlotMap_find(sm'[k], e.key) = e.val
                      /\ \A key \in SlotKeys(sm[k]) :
                            SlotMap_get(sm'[k], key) = SlotMap_get(sm[k], key)
                      /\ (smHeld[k].stale.st = "removed" /\ SlotMapNoWrap(smHeld[k]))
                            => ~SlotMap_contains(sm'[k], smHeld[k].stale.key)
       /\ call'.op = "reserve"
          => /\ Running(dsm')
             /\ DenseSlotMap_capacity(dsm') = call'.value
             /\ DenseSlotMap_size(dsm') = DenseSlotMap_size(dsm)
             /\ collect_dense(dsm') = collect_dense(dsm)
             /\ \A e \in dHeld.live :
                   /\ DenseSlotMap_contains(dsm', e.key)
                   /\ DenseSlotMap_get(dsm', e.key) = e.val
                   /\ DenseSlotMap_find(dsm', e.key) = e.val
             /\ \A i \in 0..(DenseSlotMap_capacity(dsm) - 1) :
                   DenseSlotFree(dsm', i) = DenseSlotFree(dsm, i)
             /\ (dHeld.stale.st = "removed" /\ DenseNoWrap(dHeld))
                   => ~DenseSlotMap_contains(dsm', dHeld.stale.key)]_vars

\* C17's case: the capacity has just been raised while keys are live and the
\* slot of a removed key is still free.
C17_Witness ==
    \/ /\ call.op = "resize"
       /\ \E k \in SkipKinds :
             /\ Running(sm[k])
             /\ smHeld[k].live # {}
             /\ smHeld[k].stale.st = "removed"
             /\ At(sm[k].storage_.gen, smHeld[k].stale.key.idx) = 0
    \/ /\ call.op = "reserve"
       /\ Running(dsm)
       /\ DenseSlotMap_capacity(dsm) = call.value
       /\ dHeld.live # {}
       /\ dHeld.stale.st = "removed"
       /\ DenseSlotFree(dsm, dHeld.stale.key.idx)

\* The slots of set S in ascending order.
RECURSIVE Ascending(_)
Ascending(S) ==
    IF S = {} THEN <<>>
    ELSE LET lo == CHOOSE x \in S : \A y \in S : x <= y
         IN  <<lo>> \o Ascending(S \ {lo})

\* C18: after any calls of set_skipped (on a slot reporting 0) and
\* set_not_skipped (on a slot reporting more than 0) on an IntSkipfield or a
\* BoolSkipfield created all skipped or all unskipped, the walk of collect
\* visits exactly the slots that are not skipped, in ascending order.
C18_WalkVisitsUnskipped ==
    Running(field) => collect_skipfield(field) = Ascending(unskipped)

\* The slots of skipfield sf that report 0.
Reporting0(sf) == {i \in 0..(Len(sf.f) - 1) : get_num_skipped(sf, i) = 0}

\* C19: resize(new_size, true) of an IntSkipfield or a BoolSkipfield leaves
\* every slot that reported 0 reporting 0, makes every new slot report more
\* than 0, and the walk of collect then visits exactly the slots that
\* reported 0 before; resize(new_size, false) leaves what every old slot
\* reports as it was and makes every new slot report 0.
C19_ResizeKeepsWalk ==
    [][(call'.op = "resize" /\ Running(field))
          => /\ Running(field')
             /\ Len(field'.f) = call'.value.size
             /\ call'.value.init_skipped
                   => /\ \A i \in Reporting0(field) : get_num_skipped(field', i) = 0
                      /\ \A i \in Len(field.f)..(Len(field'.f) - 1) :
                            get_num_skipped(field', i) > 0
                      /\ collect_skipfield(field') = Ascending(Reporting0(field))
             /\ ~call'.value.init_skipped
                   => /\ \A i \in 0..(Len(field.f) - 1) :
                            get_num_skipped(field', i) = get_num_skipped(field, i)
                      /\ \A i \in Len(field.f)..(Len(field'.f) - 1) :
                            get_num_skipped(field', i) = 0]_vars

\* C20: for every key (i, g) of a key type with a w bit generation,
\* next_generation gives (i, g + 1) when g < 2^w - 1 and (i, 1) when
\* g = 2^w - 1: the index is kept and the result is a valid key of the same
\* type, whatever the number of times next_generation has been applied.
C20_NextGeneration ==
    [][call'.op = "next_generation"
          => /\ id'.key.T = id.key.T
             /\ Id_idx(id'.key) = Id_idx(id.key)
             /\ Id_gen(id.key) < Pow2(id.key.T.GenBits) - 1
                   => Id_gen(id'.key) = Id_gen(id.key) + 1
             /\ Id_gen(id.key) = Pow2(id.key.T.GenBits) - 1
                   => Id_gen(id'.key) = 1
             /\ Id_gen(id'.key) # 0
             /\ Id_valid(id'.key)
             /\ id'.key = Id(id.key.T, Id_idx(id'.key), Id_gen(id'.key))]_vars

\* C20's case: next_generation has taken a key from the largest generation
\* of the widest type to generation 1.
C20_Witness ==
    /\ call.op = "next_generation"
    /\ nops = 1
    /\ id.from.T.GenBits = GenBits
    /\ Id_gen(id.from) = GenMask
    /\ Id_gen(id.key) = 1
    /\ Id_idx(id.key) = Pow2(IdxBits) - 1

\* Key type T in the encoding of class C.
Encoded(T, C) == [T EXCEPT !.class = C]

\* C21: for equal constructor arguments, also ones too large for the widths
\* (truncated modulo 2^width), BitFieldId, BitMaskId and CompositeId agree
\* on idx(), gen(), valid() (gen() # 0; the default key is invalid),
\* equality (both fields match), next_generation() and max() (all ones).
C21_EncodingsAgree ==
    \A C \in IdClasses :
       LET T == Encoded(id.key.T, C)
           k == Id(T, Id_idx(id.key), Id_gen(id.key))
       IN  /\ Id_idx(k) = Id_idx(id.key)
           /\ Id_gen(k) = Id_gen(id.key)
           /\ Id_valid(k) = Id_valid(id.key)
           /\ Id_valid(k) <=> Id_gen(k) # 0
           /\ ~Id_valid(Id0(T))
           /\ Id_eq(Id0(T), Id(T, 0, 0))
           /\ Id_eq(k, Id(T, Id_idx(id.from), Id_gen(id.from))) <=> Id_eq(id.key, id.from)
           /\ Id_eq(id.key, id.from) <=> id.key = id.from
           /\ Id_eq(Id_next_generation(k), Id_next_generation(id.key))
           /\ Id_idx(Id_max(T)) = Pow2(T.IdxBits) - 1
           /\ Id_gen(Id_max(T)) = Pow2(T.GenBits) - 1
           /\ call.op = "Id(i, g)"
                 => /\ Id_eq(Id(T, call.value.i, call.value.g), id.key)
                    /\ Id_idx(id.key) = call.value.i % Pow2(T.IdxBits)
                    /\ Id_gen(id.key) = call.value.g % Pow2(T.GenBits)
           /\ call.op = "Id()" => Id_eq(Id0(T), id.key)

\* C21's case: a BitMaskId made from arguments too large for its widths.
C21_Witness ==
    /\ call.op = "Id(i, g)"
    /\ id.key.T.class = "BitMaskId"
    /\ call.value.i > Pow2(IdxBits) - 1
    /\ call.value.g > Pow2(id.key.T.GenBits) - 1
    /\ Id_valid(id.key)
    /\ Id_idx(id.key) # call.value.i
    /\ Id_gen(id.key) # call.value.g

\* The indices of SparseVector sv that contains reports, looked for up to
\* the largest size and one beyond.
Contained(sv) == {i \in 0..MaxField : SparseVector_contains(sv, i)}

\* What the caller of sv expects of it, kept being its record: contains is
\* true exactly at the indices emplaced and not erased since, get gives the
\* value emplaced or assigned last, occupied() counts the contained indices,
\* and nothing is contained from size() on.
SparseAsKept(sv, rec) ==
    /\ Len(rec) = SparseVector_size(sv)
    /\ Contained(sv) = {i \in 0..(Len(rec) - 1) : At(rec, i) # Absent}
    /\ \A i \in Contained(sv) : SparseVector_get(sv, i) = At(rec, i)
    /\ SparseVector_occupied(sv) = Cardinality(Contained(sv))
    /\ \A i \in Contained(sv) : i < SparseVector_size(sv)

\* C22: after any emplace on an unoccupied index below size(), erase of an
\* occupied index, assignment through operator[] and resize to a larger
\* size, a SparseVector is as its caller's record has it, and emplace and
\* erase change neither contains nor get at any other index.
C22_SparseContents ==
    [][/\ Running(sparse) /\ SparseAsKept(sparse, kept)
       /\ Running(sparse') /\ SparseAsKept(sparse', kept')
       /\ call'.op \in {"emplace", "erase"}
             => \A i \in 0..MaxField :
                   i # call'.value.idx
                      => /\ SparseVector_contains(sparse', i) = SparseVector_contains(sparse, i)
                         /\ SparseVector_contains(sparse, i)
                               => SparseVector_get(sparse', i) = SparseVector_get(sparse, i)]_vars

\* C22's case: an erase has just emptied an index while another index holds
\* an assigned value.
C22_Witness ==
    /\ Running(sparse)
    /\ call.op = "erase"
    /\ ~SparseVector_contains(sparse, call.value.idx)
    /\ SparseVector_occupied(sparse) >= 1
    /\ \E i \in Contained(sparse) : SparseVector_get(sparse, i) = "bar"
    /\ nops >= 3

\* C23: resize(n) with n > size() leaves the occupancy and the value of
\* every index below the old size as they were, leaves every index from the
\* old size to n - 1 unoccupied, makes size() n and keeps occupied().
C23_SparseResize ==
    [][call'.op = "resize"
          => /\ Running(sparse')
             /\ SparseVector_size(sparse') = call'.value.idx
             /\ SparseVector_size(sparse') > SparseVector_size(sparse)
             /\ SparseVector_occupied(sparse') = SparseVector_occupied(sparse)
             /\ \A i \in 0..(SparseVector_size(sparse) - 1) :
                   /\ SparseVector_contains(sparse', i) = SparseVector_contains(sparse, i)
                   /\ SparseVector_contains(sparse, i)
                         => SparseVector_get(sparse', i) = SparseVector_get(sparse, i)
             /\ \A i \in SparseVector_size(sparse)..(SparseVector_size(sparse') - 1) :
                   ~SparseVector_contains(sparse', i)]_vars

\* C23's case: a resize of a SparseVector that holds a value and has an
\* unoccupied index below the old size.
C23_Witness ==
    /\ Running(sparse)
    /\ call.op = "resize"
    /\ Contained(sparse) # {}
    /\ \E i \in 0..(SparseVector_size(sparse) - 1) :
          /\ ~SparseVector_contains(sparse, i)
          /\ \E j \in Contained(sparse) : i < j

\* The maximal runs [s, e] of slots of a skipfield of the given size that are
\* not in the set open.
SkippedRuns(size, open) ==
    {r \in (0..(size - 1)) \X (0..(size - 1)) :
        /\ r[1] <= r[2]
        /\ \A i \in r[1]..r[2] : i \notin open
        /\ r[1] = 0 \/ (r[1] - 1) \in open
        /\ r[2] = size - 1 \/ (r[2] + 1) \in open}

\* C24: in an IntSkipfield every maximal run of skipped slots [s..e] of
\* length L has L in slot s and in slot e and L - j in every interior slot
\* s + j, and every unskipped slot holds 0.
C24_IntRunPattern ==
    (Running(field) /\ field.kind = "Int")
       => /\ \A i \in unskipped : At(field.f, i) = 0
          /\ \A r \in SkippedRuns(Len(field.f), unskipped) :
                LET L == r[2] - r[1] + 1
                IN  /\ At(field.f, r[1]) = L
                    /\ At(field.f, r[2]) = L
                    /\ \A j \in 1..(L - 2) : At(field.f, r[1] + j) = L - j

\* C25: in a SlotMap with an IntSkipfield or a BoolSkipfield the skipfield
\* has a slot for every slot of the generation table and no more, and slot i
\* reports 0 skipped exactly when the generation of slot i is not 0.
C25_SkipfieldMatchesGenerations ==
    \A k \in {"Int", "Bool"} :
        Running(sm[k])
           => /\ Len(sm[k].skipfield_.f) = SlotMap_capacity(sm[k])
              /\ \A i \in 0..(SlotMap_capacity(sm[k]) - 1) :
                    (get_num_skipped(sm[k].skipfield_, i) = 0)
                       <=> At(sm[k].storage_.gen, i) # 0

\* C26: in a SlotMap the generation of slot i is 0 exactly when its cell
\* holds a free-list link; an occupied slot has the generation of the one
\* live key with index i; no key insert returned has generation 0.
C26_GenerationsAndCells ==
    \A k \in SkipKinds :
        Running(sm[k])
           => /\ \A i \in 0..(SlotMap_capacity(sm[k]) - 1) :
                    /\ (At(sm[k].storage_.gen, i) = 0)
                          <=> At(sm[k].storage_.cell, i).tag = "link"
                    /\ At(sm[k].storage_.gen, i) # 0
                          => /\ Cardinality({e \in smHeld[k].live : e.key.idx = i}) = 1
                             /\ \A e \in smHeld[k].live :
                                   e.key.idx = i => e.key.gen = At(sm[k].storage_.gen, i)
              /\ \A e \in smHeld[k].live : valid(e.key)
              /\ sm[k].ret.op = "insert" => valid(sm[k].ret.key)

\* The slots visited from slot i on by following the free-list links of map
\* m, in order, for at most fuel steps; the walk ends at an index that is no
\* slot and stops on a cell that holds no link.
RECURSIVE FreeWalk(_, _, _)
FreeWalk(m, i, fuel) ==
    IF fuel = 0 \/ ~(i < SlotMap_capacity(m)) THEN <<>>
    ELSE IF ~(i < Len(m.storage_.cell)) \/ At(m.storage_.cell, i).tag # "link" THEN <<i>>
    ELSE <<i>> \o FreeWalk(m, At(m.storage_.cell, i).v, fuel - 1)

\* The free list of map m is acyclic, reads stored links only and holds
\* exactly the slots of generation 0.
FreeListExact(m) ==
    LET walk == FreeWalk(m, m.free_list_head_, SlotMap_capacity(m) + 1)
        seen == {walk[j] : j \in 1..Len(walk)}
    IN  /\ Cardinality(seen) = Len(walk)
        /\ \A i \in seen :
              /\ i < Len(m.storage_.cell)
              /\ At(m.storage_.cell, i).tag = "link"
              /\ At(m.storage_.gen, i) = 0
        /\ seen = {i \in 0..(SlotMap_capacity(m) - 1) : At(m.storage_.gen, i) = 0}

\* C27: in every SlotMap state, following the free-list links from the head
\* visits every slot of generation 0 exactly once and no occupied slot,
\* reads stored links only and ends at an index that is no slot.
C27_FreeListExact ==
    \A k \in SkipKinds : Running(sm[k]) => FreeListExact(sm[k])

\* C28: per slot of a SlotMap, only insert takes a free slot to occupied and
\* only remove or clear takes an occupied slot to free; a slot that stays
\* occupied keeps its generation and its value, and resize changes the role
\* of no existing slot.
C28_SlotTransitions ==
    [][\A k \in SkipKinds :
          (Running(sm[k]) /\ Running(sm'[k]))
             => /\ SlotMap_capacity(sm'[k]) >= SlotMap_capacity(sm[k])
                /\ \A i \in 0..(SlotMap_capacity(sm[k]) - 1) :
                      /\ (At(sm[k].storage_.gen, i) = 0 /\ At(sm'[k].storage_.gen, i) # 0)
                            => /\ call'.op = "insert"
                               /\ At(sm'[k].storage_.cell, i).tag = "value"
                      /\ (At(sm[k].storage_.gen, i) # 0 /\ At(sm'[k].storage_.gen, i) = 0)
                            => call'.op \in {"remove", "clear"}
                      /\ (At(sm[k].storage_.gen, i) # 0 /\ At(sm'[k].storage_.gen, i) # 0)
                            => /\ At(sm'[k].storage_.gen, i) = At(sm[k].storage_.gen, i)
                               /\ At(sm'[k].storage_.cell, i) = At(sm[k].storage_.cell, i)
                      /\ call'.op = "resize"
                            => (At(sm'[k].storage_.gen, i) = 0 <=> At(sm[k].storage_.gen, i) = 0)]_vars

\* A resize has returned on a map with an occupied and a free slot from
\* which a key was removed before.
C28_Witness ==
    /\ call.op = "resize"
    /\ \E k \in SkipKinds :
          /\ Running(sm[k])
          /\ smHeld[k].stale.st # "none"
          /\ \E i, j \in 0..(SlotMap_capacity(sm[k]) - 1) :
                At(sm[k].storage_.gen, i) # 0 /\ At(sm[k].storage_.gen, j) = 0

\* The dense sequence of map d: each element with the indices_ slot that
\* owns it.
DenseSeq(d) == [j \in 1..Len(d.data_) |-> <<d.data_[j], d.backrefs_[j]>>]

\* Sequence s with the element at position p (from 0) replaced by the last
\* element and the last position dropped.
SwapAndPop(s, p) ==
    [j \in 1..(Len(s) - 1) |-> IF j = p + 1 THEN s[Len(s)] ELSE s[j]]

\* C29: DenseSlotMap::remove(k) for a live key k whose value is at dense
\* position p leaves the dense sequence as it was with the element at p
\* replaced by the last element and the last position dropped; every other
\* element stays where it was.
C29_DenseSwapAndPop ==
    [][(call'.op = "remove" /\ Running(dsm) /\ Running(dsm'))
          => \A e \in dHeld.live \ dHeld'.live :
                LET p == At(dsm.indices_, e.key.idx).idx
                IN  /\ dsm'.ret.ok
                    /\ p < Len(dsm.data_)
                    /\ At(dsm.data_, p) = e.val
                    /\ DenseSeq(dsm') = SwapAndPop(DenseSeq(dsm), p)
                    /\ dsm'.data_ = SwapAndPop(dsm.data_, p)]_vars

\* The element inserted first has been removed from in front of the one
\* inserted second, which is now the whole dense sequence.
C29_Witness ==
    /\ call.op = "remove"
    /\ Running(dsm)
    /\ dsm.ret.ok
    /\ dHeld.stale.st = "removed"
    /\ dHeld.stale.at = 1
    /\ \E e \in dHeld.live : e.at = 2 /\ dsm.data_ = <<e.val>> /\ e.val # "foo"

\* C30: after a successful DenseSlotMap::remove(k) the free head is k's
\* index, the indices_ entry there links to the previous free head with the
\* generation after k's, and an insert issued next does not grow the map
\* and returns the key of k's index with that generation.
C30_DenseRemoveFreesSlot ==
    [][(call'.op = "remove" /\ Running(dsm) /\ Running(dsm'))
          => \A e \in dHeld.live \ dHeld'.live :
                /\ dsm'.ret.ok
                /\ dsm'.free_list_head_ = e.key.idx
                /\ At(dsm'.indices_, e.key.idx)
                      = Key(dsm.free_list_head_, next_generation(e.key).gen)
                /\ \A value \in Values :
                      /\ Running(DenseSlotMap_insert(dsm', value))
                      /\ DenseSlotMap_capacity(DenseSlotMap_insert(dsm', value))
                            = DenseSlotMap_capacity(dsm')
                      /\ DenseSlotMap_insert(dsm', value).ret
                            = Ret("insert", Key(e.key.idx, next_generation(e.key).gen), TRUE)]_vars

\* The insert issued after a successful remove has returned the removed
\* key's index with the generation after the removed key's.
C30_Witness ==
    /\ call.op = "insert"
    /\ Running(dsm)
    /\ dHeld.stale.st = "removed"
    /\ dsm.ret.key = Key(dHeld.stale.key.idx, next_generation(dHeld.stale.key).gen)
    /\ \E e \in dHeld.live : e.key = dsm.ret.key /\ e.at = dHeld.stale.at + 1

\* C31: GrowableSlotMapStorage::resize(n) relocates both roles: below the
\* old size, an occupied cell holds the same value after the resize and a
\* free cell gives the same link.
C31_GrowableResizeRelocates ==
    \A k \in SkipKinds :
        (Running(sm[k]) /\ ~sm[k].storage_.paged)
           => \A n \in (SlotMap_capacity(sm[k]) + 1)..MaxCap :
                 \A i \in 0..(SlotMap_capacity(sm[k]) - 1) :
                    /\ At(sm[k].storage_.gen, i) # 0
                          => data(GrowableSlotMapStorage_resize(sm[k].storage_, n), i)
                                = data(sm[k].storage_, i)
                    /\ (At(sm[k].storage_.gen, i) = 0
                          /\ At(sm[k].storage_.cell, i).tag = "link")
                          => At(GrowableSlotMapStorage_resize(sm[k].storage_, n).cell, i)
                                = At(sm[k].storage_.cell, i)

\* C32: when a SlotMap is grown by resize, the slots that were free before
\* are handed out before any new slot: the insert issued next on a map that
\* had a free slot returns a key of a slot below the old capacity.
C32_GrowthAppendsToTail ==
    [][call'.op = "resize"
          => \A k \in SkipKinds :
                (/\ Running(sm[k])
                 /\ Running(sm'[k])
                 /\ \E i \in 0..(SlotMap_capacity(sm[k]) - 1) : At(sm[k].storage_.gen, i) = 0)
                   => \A value \in Values, junk \in JunkLinks :
                         /\ Running(SlotMap_insert(sm'[k], value, FALSE, junk))
                         /\ SlotMap_insert(sm'[k], value, FALSE, junk).ret.key.idx
                               < SlotMap_capacity(sm[k])]_vars

\* The generation the claim gives the n-th successful insert of a map.
NthGeneration(n) == ((n - 1) % GenMask) + 1

\* C33: a SlotMap issues generations from one counter of the whole map: the
\* n-th insert that returns, whatever removes, slots and growth came
\* before, returns a key of generation ((n - 1) mod (2^w - 1)) + 1; so does
\* the insert that would be issued next, when it returns.
C33_MapWideCounter ==
    /\ [][\A k \in SkipKinds :
             (call'.op = "insert" /\ Running(sm[k]) /\ Running(sm'[k]))
                => /\ smHeld'[k].n = smHeld[k].n + 1
                   /\ sm'[k].ret.key.gen = NthGeneration(smHeld'[k].n)]_vars
    /\ [](\A k \in SkipKinds :
             Running(sm[k])
                => \A value \in Values,
                      junk \in IF ReadsJunk(sm[k].storage_, sm[k].free_list_head_)
                               THEN JunkLinks ELSE {0} :
                      Running(SlotMap_insert(sm[k], value, FALSE, junk))
                         => SlotMap_insert(sm[k], value, FALSE, junk).ret.key.gen
                               = NthGeneration(smHeld[k].n + 1))

\* As many inserts have returned as there are generations, on different
\* slots and with a remove in between or a growth before, and the insert
\* issued next returns: its generation is 1 again.
C33_Witness ==
    \E k \in SkipKinds :
        /\ Running(sm[k])
        /\ call.op = "insert"
        /\ smHeld[k].n = GenMask
        /\ sm[k].ret.key.gen = GenMask
        /\ sm[k].generation_ = 1
        /\ Running(SlotMap_insert(sm[k], "foo", FALSE, 0))
        /\ SlotMap_insert(sm[k], "foo", FALSE, 0).ret.key.gen = 1

\* C34: for a live key in the last slot of a SlotMap, next returns the
\* invalid key without asking the skipfield about an index that is none of
\* its slots, for each skipfield class.
C34_NextAtLastSlot ==
    \A k \in SkipKinds :
        Running(sm[k])
           => \A e \in smHeld[k].live :
                 e.key.idx = SlotMap_capacity(sm[k]) - 1
                    => /\ NumSkippedOk(sm[k].skipfield_, e.key.idx + 1)
                       /\ SlotMap_next(sm[k], e.key) = [ok |-> TRUE, key |-> NullKey]

\* C35: every IntSkipfield operation called within its preconditions, in
\* any state reached, reads and writes slots of the field only, and never
\* calls set_range_skipped with count 0 or a start below 0: the constructor,
\* set_skipped on a slot reporting 0, set_not_skipped on a slot reporting
\* more than 0 and resize to a larger size all return.
C35_IntSkipfieldInBounds ==
    /\ \A size \in 1..MaxCap, init_skipped \in BOOLEAN :
          Running(IntSkipfield(size, init_skipped))
    /\ (Running(field) /\ field.kind = "Int")
          => /\ \A idx \in 0..(Len(field.f) - 1) :
                   /\ IntSkipfield_get_num_skipped(field, idx) = 0
                         => Running(IntSkipfield_set_skipped(field, idx))
                   /\ IntSkipfield_get_num_skipped(field, idx) > 0
                         => Running(IntSkipfield_set_not_skipped(field, idx))
             /\ \A size \in (Len(field.f) + 1)..MaxField, init_skipped \in BOOLEAN :
                   Running(IntSkipfield_resize(field, size, init_skipped))

\* C36: while DenseSlotMap::remove(k) runs for a live key k, every index it
\* uses on data_ or backrefs_ is below the length the table has at that
\* moment, also when k's value is at the last dense position and when it is
\* the only element: the read of backrefs_ after the pop is no read past the
\* end, so remove returns whatever such a read would bring.
C36_DenseRemoveInBounds ==
    Running(dsm)
       => \A e \in dHeld.live :
             /\ At(dsm.indices_, e.key.idx).idx <= Len(dsm.data_) - 1
             /\ At(dsm.indices_, e.key.idx).idx < Len(PopBack(dsm.backrefs_))
             /\ Running(DenseSlotMap_remove(dsm, e.key, TRUE))

\* The first n indices_ slots on the free list of dense map d from slot i
\* on, in order; an index that is no slot ends the walk.
RECURSIVE DenseFreeWalk(_, _, _)
DenseFreeWalk(d, i, n) ==
    IF n = 0 THEN <<>>
    ELSE IF ~(i < DenseSlotMap_capacity(d)) THEN <<i>>
    ELSE <<i>> \o DenseFreeWalk(d, At(d.indices_, i).idx, n - 1)

\* C37: in every DenseSlotMap state with size() < capacity() the free head
\* is a slot, and the links from it give capacity() - size() different
\* indices_ slots that no back-reference names, before any occupied slot or
\* any index that is no slot; an insert then takes the head without growing.
C37_DenseFreeList ==
    (Running(dsm) /\ DenseSlotMap_size(dsm) < DenseSlotMap_capacity(dsm))
       => LET n == DenseSlotMap_capacity(dsm) - DenseSlotMap_size(dsm)
              walk == DenseFreeWalk(dsm, dsm.free_list_head_, n)
              seen == {walk[j] : j \in 1..Len(walk)}
          IN  /\ dsm.free_list_head_ < DenseSlotMap_capacity(dsm)
              /\ Len(walk) = n
              /\ Cardinality(seen) = n
              /\ \A i \in seen :
                    /\ i < DenseSlotMap_capacity(dsm)
                    /\ \A j \in 1..Len(dsm.backrefs_) : dsm.backrefs_[j] # i
              /\ \A value \in Values :
                    /\ Running(DenseSlotMap_insert(dsm, value))
                    /\ DenseSlotMap_capacity(DenseSlotMap_insert(dsm, value))
                          = DenseSlotMap_capacity(dsm)
                    /\ DenseSlotMap_insert(dsm, value).ret.key.idx = dsm.free_list_head_

\* An insert has returned on a map that was grown beyond its first capacity
\* and from which a key was removed, and free slots remain.
C37_Witness ==
    /\ Running(dsm)
    /\ call.op = "insert"
    /\ dHeld.stale.st = "removed"
    /\ DenseSlotMap_capacity(dsm) >= 3
    /\ DenseSlotMap_size(dsm) >= 1
    /\ DenseSlotMap_size(dsm) < DenseSlotMap_capacity(dsm)

\* C38: PagedSlotMapStorage::resize appends one page of page_size_ cells,
\* leaves every cell and generation it had as they were, and writes no
\* entry of the new page table beyond those it allocated, so it returns
\* whatever a write past the table would bring.
C38_PagedResizeAppendsPage ==
    \A k \in SkipKinds :
        (Running(sm[k]) /\ sm[k].storage_.paged)
           => /\ new_pages_written(sm[k].storage_) < new_pages_allocated(sm[k].storage_)
              /\ \A n \in (SlotMap_capacity(sm[k]) + 1)..MaxCap, crash \in BOOLEAN :
                    LET st == sm[k].storage_
                        st2 == PagedSlotMapStorage_resize(st, n, crash)
                    IN  /\ Running(st2)
                        /\ st2.num_pages_ = st.num_pages_ + 1
                        /\ Len(st2.cell) = Len(st.cell) + st.page_size_
                        /\ SubSeq(st2.cell, 1, Len(st.cell)) = st.cell
                        /\ SubSeq(st2.gen, 1, Len(st.gen)) = st.gen

\* C39: in every DenseSlotMap state, get_key of the element get(k) points
\* to is k for every live key k, and get_key of the element at every
\* position of data_ is a live key whose value is that element.
C39_DenseGetKey ==
    Running(dsm)
       => /\ \A e \in dHeld.live :
                /\ DenseSlotMap_get_position(dsm, e.key) < DenseSlotMap_size(dsm)
                /\ DenseSlotMap_get_key(dsm, DenseSlotMap_get_position(dsm, e.key)) = e.key
          /\ \A p \in 0..(DenseSlotMap_size(dsm) - 1) :
                \E e \in dHeld.live :
                   /\ e.key = DenseSlotMap_get_key(dsm, p)
                   /\ e.val = At(dsm.data_, p)
                   /\ DenseSlotMap_get(dsm, e.key) = At(dsm.data_, p)

\* A remove has moved the last element forward: a live key's element is at a
\* position of data_ that differs from the key's index.
C39_Witness ==
    /\ Running(dsm)
    /\ call.op = "remove"
    /\ dsm.ret.ok
    /\ \E e \in dHeld.live :
          /\ DenseSlotMap_get_position(dsm, e.key) # e.key.idx
          /\ DenseSlotMap_get_key(dsm, DenseSlotMap_get_position(dsm, e.key)) = e.key

\* The number of slots of map m with a generation other than 0.
OccupiedSlots(m) ==
    Cardinality({i \in 0..(SlotMap_capacity(m) - 1) : At(m.storage_.gen, i) # 0})

\* C40: in every SlotMap state size() is the number of slots with a
\* generation other than 0; an insert that returns adds 1 to it, a remove
\* that returns true takes 1 from it, and a remove that returns false and a
\* resize leave it as it was (contains, find, get and next are const).
C40_SizeCountsOccupied ==
    /\ [](\A k \in SkipKinds : Running(sm[k]) => SlotMap_size(sm[k]) = OccupiedSlots(sm[k]))
    /\ [][\A k \in SkipKinds :
             (Running(sm[k]) /\ Running(sm'[k]))
                => /\ call'.op = "insert" => SlotMap_size(sm'[k]) = SlotMap_size(sm[k]) + 1
                   /\ (call'.op = "remove" /\ sm'[k].ret.ok)
                         => SlotMap_size(sm'[k]) = SlotMap_size(sm[k]) - 1
                   /\ (call'.op = "remove" /\ ~sm'[k].ret.ok)
                         => /\ SlotMap_size(sm'[k]) = SlotMap_size(sm[k])
                            /\ sm'[k].storage_ = sm[k].storage_
                   /\ call'.op = "resize" => SlotMap_size(sm'[k]) = SlotMap_size(sm[k])
                   /\ call'.op = "clear" => SlotMap_size(sm'[k]) = 0]_vars

\* A remove has returned false on a map that holds one element after two
\* inserts and a remove that returned true.
C40_Witness ==
    /\ call.op = "remove"
    /\ \E k \in SkipKinds :
          /\ Running(sm[k])
          /\ ~sm[k].ret.ok
          /\ smHeld[k].n = 2
          /\ smHeld[k].stale.st = "removed"
          /\ SlotMap_size(sm[k]) = 1
          /\ OccupiedSlots(sm[k]) = 1

====
